---- MODULE Spec2Model ----
(***************************************************************************)
(* The drone command server of wsl_drone_server.py: main()'s boot          *)
(* sequence, the accept loop, and one handle_client coroutine per          *)
(* connection, all sharing the dict state = {"flying": ...} and the        *)
(* MAVSDK link.  Every "await" of the source is a suspension point and     *)
(* therefore a separate step; the code between two awaits is one step.     *)
(***************************************************************************)
EXTENDS Integers, Sequences, FiniteSets, TLC

\* ---------------------------------------------------------------- bounds
\* connections the server accepts
NumSessions == 2
\* lines the server reads in total, over all sessions, in a run that is not
\* the scenario of the spec (which is followed to its end)
MaxCmds == 3
Sessions == 1..NumSessions

\* ------------------------------------------------------------ line text
\* A received line is the sequence of the code points of line.decode(), so
\* that strip() and lower() are computed and not assumed: 116 is "t", 10
\* is "\n".

\* the characters str.strip() removes: those with str.isspace(), which are
\* \t \n \v \f \r, U+001C..U+001F, the space, U+0085, U+00A0, U+1680,
\* U+2000..U+200A, U+2028, U+2029, U+202F, U+205F and U+3000
Whitespace ==
    (9..13) \cup (28..32) \cup {133, 160, 5760} \cup (8192..8202)
    \cup {8232, 8233, 8239, 8287, 12288}

\* the characters str.lower() changes into one other character, as runs
\* <<first, last, step, delta>>: c = first + k * step <= last lowers to
\* c + delta (Unicode 14.0.0, the tables of the interpreter)
LowerRuns ==
    <<
    <<65, 90, 1, 32>>, <<192, 214, 1, 32>>, <<216, 222, 1, 32>>, <<256,
    302, 2, 1>>, <<306, 310, 2, 1>>, <<313, 327, 2, 1>>, <<330, 374, 2,
    1>>, <<376, 376, 1, -121>>, <<377, 381, 2, 1>>, <<385, 385, 1, 210>>,
    <<386, 388, 2, 1>>, <<390, 390, 1, 206>>, <<391, 391, 1, 1>>, <<393,
    394, 1, 205>>, <<395, 395, 1, 1>>, <<398, 398, 1, 79>>, <<399, 399, 1,
    202>>, <<400, 400, 1, 203>>, <<401, 401, 1, 1>>, <<403, 403, 1, 205>>,
    <<404, 404, 1, 207>>, <<406, 406, 1, 211>>, <<407, 407, 1, 209>>,
    <<408, 408, 1, 1>>, <<412, 412, 1, 211>>, <<413, 413, 1, 213>>, <<415,
    415, 1, 214>>, <<416, 420, 2, 1>>, <<422, 422, 1, 218>>, <<423, 423,
    1, 1>>, <<425, 425, 1, 218>>, <<428, 428, 1, 1>>, <<430, 430, 1,
    218>>, <<431, 431, 1, 1>>, <<433, 434, 1, 217>>, <<435, 437, 2, 1>>,
    <<439, 439, 1, 219>>, <<440, 440, 1, 1>>, <<444, 444, 1, 1>>, <<452,
    452, 1, 2>>, <<453, 453, 1, 1>>, <<455, 455, 1, 2>>, <<456, 456, 1,
    1>>, <<458, 458, 1, 2>>, <<459, 475, 2, 1>>, <<478, 494, 2, 1>>,
    <<497, 497, 1, 2>>, <<498, 500, 2, 1>>, <<502, 502, 1, -97>>, <<503,
    503, 1, -56>>, <<504, 542, 2, 1>>, <<544, 544, 1, -130>>, <<546, 562,
    2, 1>>, <<570, 570, 1, 10795>>, <<571, 571, 1, 1>>, <<573, 573, 1,
    -163>>, <<574, 574, 1, 10792>>, <<577, 577, 1, 1>>, <<579, 579, 1,
    -195>>, <<580, 580, 1, 69>>, <<581, 581, 1, 71>>, <<582, 590, 2, 1>>,
    <<880, 882, 2, 1>>, <<886, 886, 1, 1>>, <<895, 895, 1, 116>>, <<902,
    902, 1, 38>>, <<904, 906, 1, 37>>, <<908, 908, 1, 64>>, <<910, 911, 1,
    63>>, <<913, 929, 1, 32>>, <<931, 939, 1, 32>>, <<975, 975, 1, 8>>,
    <<984, 1006, 2, 1>>, <<1012, 1012, 1, -60>>, <<1015, 1015, 1, 1>>,
    <<1017, 1017, 1, -7>>, <<1018, 1018, 1, 1>>, <<1021, 1023, 1, -130>>,
    <<1024, 1039, 1, 80>>, <<1040, 1071, 1, 32>>, <<1120, 1152, 2, 1>>,
    <<1162, 1214, 2, 1>>, <<1216, 1216, 1, 15>>, <<1217, 1229, 2, 1>>,
    <<1232, 1326, 2, 1>>, <<1329, 1366, 1, 48>>, <<4256, 4293, 1, 7264>>,
    <<4295, 4295, 1, 7264>>, <<4301, 4301, 1, 7264>>, <<5024, 5103, 1,
    38864>>, <<5104, 5109, 1, 8>>, <<7312, 7354, 1, -3008>>, <<7357, 7359,
    1, -3008>>, <<7680, 7828, 2, 1>>, <<7838, 7838, 1, -7615>>, <<7840,
    7934, 2, 1>>, <<7944, 7951, 1, -8>>, <<7960, 7965, 1, -8>>, <<7976,
    7983, 1, -8>>, <<7992, 7999, 1, -8>>, <<8008, 8013, 1, -8>>, <<8025,
    8031, 2, -8>>, <<8040, 8047, 1, -8>>, <<8072, 8079, 1, -8>>, <<8088,
    8095, 1, -8>>, <<8104, 8111, 1, -8>>, <<8120, 8121, 1, -8>>, <<8122,
    8123, 1, -74>>, <<8124, 8124, 1, -9>>, <<8136, 8139, 1, -86>>, <<8140,
    8140, 1, -9>>, <<8152, 8153, 1, -8>>, <<8154, 8155, 1, -100>>, <<8168,
    8169, 1, -8>>, <<8170, 8171, 1, -112>>, <<8172, 8172, 1, -7>>, <<8184,
    8185, 1, -128>>, <<8186, 8187, 1, -126>>, <<8188, 8188, 1, -9>>,
    <<8486, 8486, 1, -7517>>, <<8490, 8490, 1, -8383>>, <<8491, 8491, 1,
    -8262>>, <<8498, 8498, 1, 28>>, <<8544, 8559, 1, 16>>, <<8579, 8579,
    1, 1>>, <<9398, 9423, 1, 26>>, <<11264, 11311, 1, 48>>, <<11360,
    11360, 1, 1>>, <<11362, 11362, 1, -10743>>, <<11363, 11363, 1,
    -3814>>, <<11364, 11364, 1, -10727>>, <<11367, 11371, 2, 1>>, <<11373,
    11373, 1, -10780>>, <<11374, 11374, 1, -10749>>, <<11375, 11375, 1,
    -10783>>, <<11376, 11376, 1, -10782>>, <<11378, 11378, 1, 1>>,
    <<11381, 11381, 1, 1>>, <<11390, 11391, 1, -10815>>, <<11392, 11490,
    2, 1>>, <<11499, 11501, 2, 1>>, <<11506, 11506, 1, 1>>, <<42560,
    42604, 2, 1>>, <<42624, 42650, 2, 1>>, <<42786, 42798, 2, 1>>,
    <<42802, 42862, 2, 1>>, <<42873, 42875, 2, 1>>, <<42877, 42877, 1,
    -35332>>, <<42878, 42886, 2, 1>>, <<42891, 42891, 1, 1>>, <<42893,
    42893, 1, -42280>>, <<42896, 42898, 2, 1>>, <<42902, 42920, 2, 1>>,
    <<42922, 42922, 1, -42308>>, <<42923, 42923, 1, -42319>>, <<42924,
    42924, 1, -42315>>, <<42925, 42925, 1, -42305>>, <<42926, 42926, 1,
    -42308>>, <<42928, 42928, 1, -42258>>, <<42929, 42929, 1, -42282>>,
    <<42930, 42930, 1, -42261>>, <<42931, 42931, 1, 928>>, <<42932, 42946,
    2, 1>>, <<42948, 42948, 1, -48>>, <<42949, 42949, 1, -42307>>,
    <<42950, 42950, 1, -35384>>, <<42951, 42953, 2, 1>>, <<42960, 42960,
    1, 1>>, <<42966, 42968, 2, 1>>, <<42997, 42997, 1, 1>>, <<65313,
    65338, 1, 32>>, <<66560, 66599, 1, 40>>, <<66736, 66771, 1, 40>>,
    <<66928, 66938, 1, 39>>, <<66940, 66954, 1, 39>>, <<66956, 66962, 1,
    39>>, <<66964, 66965, 1, 39>>, <<68736, 68786, 1, 64>>, <<71840,
    71871, 1, 32>>, <<93760, 93791, 1, 32>>, <<125184, 125217, 1, 34>>
    >>

\* the case-ignorable characters, as runs <<first, last>>
CaseIgnorableRuns ==
    <<
    <<39, 39>>, <<46, 46>>, <<58, 58>>, <<94, 94>>, <<96, 96>>, <<168,
    168>>, <<173, 173>>, <<175, 175>>, <<180, 180>>, <<183, 184>>, <<688,
    879>>, <<884, 885>>, <<890, 890>>, <<900, 901>>, <<903, 903>>, <<1155,
    1161>>, <<1369, 1369>>, <<1375, 1375>>, <<1425, 1469>>, <<1471,
    1471>>, <<1473, 1474>>, <<1476, 1477>>, <<1479, 1479>>, <<1524,
    1524>>, <<1536, 1541>>, <<1552, 1562>>, <<1564, 1564>>, <<1600,
    1600>>, <<1611, 1631>>, <<1648, 1648>>, <<1750, 1757>>, <<1759,
    1768>>, <<1770, 1773>>, <<1807, 1807>>, <<1809, 1809>>, <<1840,
    1866>>, <<1958, 1968>>, <<2027, 2037>>, <<2042, 2042>>, <<2045,
    2045>>, <<2070, 2093>>, <<2137, 2139>>, <<2184, 2184>>, <<2192,
    2193>>, <<2200, 2207>>, <<2249, 2306>>, <<2362, 2362>>, <<2364,
    2364>>, <<2369, 2376>>, <<2381, 2381>>, <<2385, 2391>>, <<2402,
    2403>>, <<2417, 2417>>, <<2433, 2433>>, <<2492, 2492>>, <<2497,
    2500>>, <<2509, 2509>>, <<2530, 2531>>, <<2558, 2558>>, <<2561,
    2562>>, <<2620, 2620>>, <<2625, 2626>>, <<2631, 2632>>, <<2635,
    2637>>, <<2641, 2641>>, <<2672, 2673>>, <<2677, 2677>>, <<2689,
    2690>>, <<2748, 2748>>, <<2753, 2757>>, <<2759, 2760>>, <<2765,
    2765>>, <<2786, 2787>>, <<2810, 2815>>, <<2817, 2817>>, <<2876,
    2876>>, <<2879, 2879>>, <<2881, 2884>>, <<2893, 2893>>, <<2901,
    2902>>, <<2914, 2915>>, <<2946, 2946>>, <<3008, 3008>>, <<3021,
    3021>>, <<3072, 3072>>, <<3076, 3076>>, <<3132, 3132>>, <<3134,
    3136>>, <<3142, 3144>>, <<3146, 3149>>, <<3157, 3158>>, <<3170,
    3171>>, <<3201, 3201>>, <<3260, 3260>>, <<3263, 3263>>, <<3270,
    3270>>, <<3276, 3277>>, <<3298, 3299>>, <<3328, 3329>>, <<3387,
    3388>>, <<3393, 3396>>, <<3405, 3405>>, <<3426, 3427>>, <<3457,
    3457>>, <<3530, 3530>>, <<3538, 3540>>, <<3542, 3542>>, <<3633,
    3633>>, <<3636, 3642>>, <<3654, 3662>>, <<3761, 3761>>, <<3764,
    3772>>, <<3782, 3782>>, <<3784, 3789>>, <<3864, 3865>>, <<3893,
    3893>>, <<3895, 3895>>, <<3897, 3897>>, <<3953, 3966>>, <<3968,
    3972>>, <<3974, 3975>>, <<3981, 3991>>, <<3993, 4028>>, <<4038,
    4038>>, <<4141, 4144>>, <<4146, 4151>>, <<4153, 4154>>, <<4157,
    4158>>, <<4184, 4185>>, <<4190, 4192>>, <<4209, 4212>>, <<4226,
    4226>>, <<4229, 4230>>, <<4237, 4237>>, <<4253, 4253>>, <<4348,
    4348>>, <<4957, 4959>>, <<5906, 5908>>, <<5938, 5939>>, <<5970,
    5971>>, <<6002, 6003>>, <<6068, 6069>>, <<6071, 6077>>, <<6086,
    6086>>, <<6089, 6099>>, <<6103, 6103>>, <<6109, 6109>>, <<6155,
    6159>>, <<6211, 6211>>, <<6277, 6278>>, <<6313, 6313>>, <<6432,
    6434>>, <<6439, 6440>>, <<6450, 6450>>, <<6457, 6459>>, <<6679,
    6680>>, <<6683, 6683>>, <<6742, 6742>>, <<6744, 6750>>, <<6752,
    6752>>, <<6754, 6754>>, <<6757, 6764>>, <<6771, 6780>>, <<6783,
    6783>>, <<6823, 6823>>, <<6832, 6862>>, <<6912, 6915>>, <<6964,
    6964>>, <<6966, 6970>>, <<6972, 6972>>, <<6978, 6978>>, <<7019,
    7027>>, <<7040, 7041>>, <<7074, 7077>>, <<7080, 7081>>, <<7083,
    7085>>, <<7142, 7142>>, <<7144, 7145>>, <<7149, 7149>>, <<7151,
    7153>>, <<7212, 7219>>, <<7222, 7223>>, <<7288, 7293>>, <<7376,
    7378>>, <<7380, 7392>>, <<7394, 7400>>, <<7405, 7405>>, <<7412,
    7412>>, <<7416, 7417>>, <<7468, 7530>>, <<7544, 7544>>, <<7579,
    7679>>, <<8125, 8125>>, <<8127, 8129>>, <<8141, 8143>>, <<8157,
    8159>>, <<8173, 8175>>, <<8189, 8190>>, <<8203, 8207>>, <<8216,
    8217>>, <<8228, 8228>>, <<8231, 8231>>, <<8234, 8238>>, <<8288,
    8292>>, <<8294, 8303>>, <<8305, 8305>>, <<8319, 8319>>, <<8336,
    8348>>, <<8400, 8432>>, <<11388, 11389>>, <<11503, 11505>>, <<11631,
    11631>>, <<11647, 11647>>, <<11744, 11775>>, <<11823, 11823>>,
    <<12293, 12293>>, <<12330, 12333>>, <<12337, 12341>>, <<12347,
    12347>>, <<12441, 12446>>, <<12540, 12542>>, <<40981, 40981>>,
    <<42232, 42237>>, <<42508, 42508>>, <<42607, 42610>>, <<42612,
    42621>>, <<42623, 42623>>, <<42652, 42655>>, <<42736, 42737>>,
    <<42752, 42785>>, <<42864, 42864>>, <<42888, 42890>>, <<42994,
    42996>>, <<43000, 43001>>, <<43010, 43010>>, <<43014, 43014>>,
    <<43019, 43019>>, <<43045, 43046>>, <<43052, 43052>>, <<43204,
    43205>>, <<43232, 43249>>, <<43263, 43263>>, <<43302, 43309>>,
    <<43335, 43345>>, <<43392, 43394>>, <<43443, 43443>>, <<43446,
    43449>>, <<43452, 43453>>, <<43471, 43471>>, <<43493, 43494>>,
    <<43561, 43566>>, <<43569, 43570>>, <<43573, 43574>>, <<43587,
    43587>>, <<43596, 43596>>, <<43632, 43632>>, <<43644, 43644>>,
    <<43696, 43696>>, <<43698, 43700>>, <<43703, 43704>>, <<43710,
    43711>>, <<43713, 43713>>, <<43741, 43741>>, <<43756, 43757>>,
    <<43763, 43764>>, <<43766, 43766>>, <<43867, 43871>>, <<43881,
    43883>>, <<44005, 44005>>, <<44008, 44008>>, <<44013, 44013>>,
    <<64286, 64286>>, <<64434, 64450>>, <<65024, 65039>>, <<65043,
    65043>>, <<65056, 65071>>, <<65106, 65106>>, <<65109, 65109>>,
    <<65279, 65279>>, <<65287, 65287>>, <<65294, 65294>>, <<65306,
    65306>>, <<65342, 65342>>, <<65344, 65344>>, <<65392, 65392>>,
    <<65438, 65439>>, <<65507, 65507>>, <<65529, 65531>>, <<66045,
    66045>>, <<66272, 66272>>, <<66422, 66426>>, <<67456, 67461>>,
    <<67463, 67504>>, <<67506, 67514>>, <<68097, 68099>>, <<68101,
    68102>>, <<68108, 68111>>, <<68152, 68154>>, <<68159, 68159>>,
    <<68325, 68326>>, <<68900, 68903>>, <<69291, 69292>>, <<69446,
    69456>>, <<69506, 69509>>, <<69633, 69633>>, <<69688, 69702>>,
    <<69744, 69744>>, <<69747, 69748>>, <<69759, 69761>>, <<69811,
    69814>>, <<69817, 69818>>, <<69821, 69821>>, <<69826, 69826>>,
    <<69837, 69837>>, <<69888, 69890>>, <<69927, 69931>>, <<69933,
    69940>>, <<70003, 70003>>, <<70016, 70017>>, <<70070, 70078>>,
    <<70089, 70092>>, <<70095, 70095>>, <<70191, 70193>>, <<70196,
    70196>>, <<70198, 70199>>, <<70206, 70206>>, <<70367, 70367>>,
    <<70371, 70378>>, <<70400, 70401>>, <<70459, 70460>>, <<70464,
    70464>>, <<70502, 70508>>, <<70512, 70516>>, <<70712, 70719>>,
    <<70722, 70724>>, <<70726, 70726>>, <<70750, 70750>>, <<70835,
    70840>>, <<70842, 70842>>, <<70847, 70848>>, <<70850, 70851>>,
    <<71090, 71093>>, <<71100, 71101>>, <<71103, 71104>>, <<71132,
    71133>>, <<71219, 71226>>, <<71229, 71229>>, <<71231, 71232>>,
    <<71339, 71339>>, <<71341, 71341>>, <<71344, 71349>>, <<71351,
    71351>>, <<71453, 71455>>, <<71458, 71461>>, <<71463, 71467>>,
    <<71727, 71735>>, <<71737, 71738>>, <<71995, 71996>>, <<71998,
    71998>>, <<72003, 72003>>, <<72148, 72151>>, <<72154, 72155>>,
    <<72160, 72160>>, <<72193, 72202>>, <<72243, 72248>>, <<72251,
    72254>>, <<72263, 72263>>, <<72273, 72278>>, <<72281, 72283>>,
    <<72330, 72342>>, <<72344, 72345>>, <<72752, 72758>>, <<72760,
    72765>>, <<72767, 72767>>, <<72850, 72871>>, <<72874, 72880>>,
    <<72882, 72883>>, <<72885, 72886>>, <<73009, 73014>>, <<73018,
    73018>>, <<73020, 73021>>, <<73023, 73029>>, <<73031, 73031>>,
    <<73104, 73105>>, <<73109, 73109>>, <<73111, 73111>>, <<73459,
    73460>>, <<78896, 78904>>, <<92912, 92916>>, <<92976, 92982>>,
    <<92992, 92995>>, <<94031, 94031>>, <<94095, 94111>>, <<94176,
    94177>>, <<94179, 94180>>, <<110576, 110579>>, <<110581, 110587>>,
    <<110589, 110590>>, <<113821, 113822>>, <<113824, 113827>>, <<118528,
    118573>>, <<118576, 118598>>, <<119143, 119145>>, <<119155, 119170>>,
    <<119173, 119179>>, <<119210, 119213>>, <<119362, 119364>>, <<121344,
    121398>>, <<121403, 121452>>, <<121461, 121461>>, <<121476, 121476>>,
    <<121499, 121503>>, <<121505, 121519>>, <<122880, 122886>>, <<122888,
    122904>>, <<122907, 122913>>, <<122915, 122916>>, <<122918, 122922>>,
    <<123184, 123197>>, <<123566, 123566>>, <<123628, 123631>>, <<125136,
    125142>>, <<125252, 125259>>, <<127995, 127999>>, <<917505, 917505>>,
    <<917536, 917631>>, <<917760, 917999>>
    >>

\* the cased characters that are not case-ignorable, as runs <<first, last>>
CasedRuns ==
    <<
    <<65, 90>>, <<97, 122>>, <<170, 170>>, <<181, 181>>, <<186, 186>>,
    <<192, 214>>, <<216, 246>>, <<248, 442>>, <<444, 447>>, <<452, 659>>,
    <<661, 687>>, <<880, 883>>, <<886, 887>>, <<891, 893>>, <<895, 895>>,
    <<902, 902>>, <<904, 906>>, <<908, 908>>, <<910, 929>>, <<931, 1013>>,
    <<1015, 1153>>, <<1162, 1327>>, <<1329, 1366>>, <<1376, 1416>>,
    <<4256, 4293>>, <<4295, 4295>>, <<4301, 4301>>, <<4304, 4346>>,
    <<4349, 4351>>, <<5024, 5109>>, <<5112, 5117>>, <<7296, 7304>>,
    <<7312, 7354>>, <<7357, 7359>>, <<7424, 7467>>, <<7531, 7543>>,
    <<7545, 7578>>, <<7680, 7957>>, <<7960, 7965>>, <<7968, 8005>>,
    <<8008, 8013>>, <<8016, 8023>>, <<8025, 8025>>, <<8027, 8027>>,
    <<8029, 8029>>, <<8031, 8061>>, <<8064, 8116>>, <<8118, 8124>>,
    <<8126, 8126>>, <<8130, 8132>>, <<8134, 8140>>, <<8144, 8147>>,
    <<8150, 8155>>, <<8160, 8172>>, <<8178, 8180>>, <<8182, 8188>>,
    <<8450, 8450>>, <<8455, 8455>>, <<8458, 8467>>, <<8469, 8469>>,
    <<8473, 8477>>, <<8484, 8484>>, <<8486, 8486>>, <<8488, 8488>>,
    <<8490, 8493>>, <<8495, 8500>>, <<8505, 8505>>, <<8508, 8511>>,
    <<8517, 8521>>, <<8526, 8526>>, <<8544, 8575>>, <<8579, 8580>>,
    <<9398, 9449>>, <<11264, 11387>>, <<11390, 11492>>, <<11499, 11502>>,
    <<11506, 11507>>, <<11520, 11557>>, <<11559, 11559>>, <<11565,
    11565>>, <<42560, 42605>>, <<42624, 42651>>, <<42786, 42863>>,
    <<42865, 42887>>, <<42891, 42894>>, <<42896, 42954>>, <<42960,
    42961>>, <<42963, 42963>>, <<42965, 42969>>, <<42997, 42998>>,
    <<43002, 43002>>, <<43824, 43866>>, <<43872, 43880>>, <<43888,
    43967>>, <<64256, 64262>>, <<64275, 64279>>, <<65313, 65338>>,
    <<65345, 65370>>, <<66560, 66639>>, <<66736, 66771>>, <<66776,
    66811>>, <<66928, 66938>>, <<66940, 66954>>, <<66956, 66962>>,
    <<66964, 66965>>, <<66967, 66977>>, <<66979, 66993>>, <<66995,
    67001>>, <<67003, 67004>>, <<68736, 68786>>, <<68800, 68850>>,
    <<71840, 71903>>, <<93760, 93823>>, <<119808, 119892>>, <<119894,
    119964>>, <<119966, 119967>>, <<119970, 119970>>, <<119973, 119974>>,
    <<119977, 119980>>, <<119982, 119993>>, <<119995, 119995>>, <<119997,
    120003>>, <<120005, 120069>>, <<120071, 120074>>, <<120077, 120084>>,
    <<120086, 120092>>, <<120094, 120121>>, <<120123, 120126>>, <<120128,
    120132>>, <<120134, 120134>>, <<120138, 120144>>, <<120146, 120485>>,
    <<120488, 120512>>, <<120514, 120538>>, <<120540, 120570>>, <<120572,
    120596>>, <<120598, 120628>>, <<120630, 120654>>, <<120656, 120686>>,
    <<120688, 120712>>, <<120714, 120744>>, <<120746, 120770>>, <<120772,
    120779>>, <<122624, 122633>>, <<122635, 122654>>, <<125184, 125251>>,
    <<127280, 127305>>, <<127312, 127337>>, <<127344, 127369>>
    >>

InRuns(c, runs) == \E k \in 1..Len(runs) : runs[k][1] <= c /\ c <= runs[k][2]

CaseIgnorable(c) == InRuns(c, CaseIgnorableRuns)

\* the ignorable characters are skipped before casedness is looked at
Cased(c) == InRuns(c, CasedRuns)

\* str.lower() of the one-character string c: U+0130 lowers to "i" and
\* U+0307, every other character to one character
LowerChar(c) ==
    IF c = 304 THEN <<105, 775>>
    ELSE LET hit == {k \in 1..Len(LowerRuns) :
                        /\ LowerRuns[k][1] <= c
                        /\ c <= LowerRuns[k][2]
                        /\ (c - LowerRuns[k][1]) % LowerRuns[k][3] = 0}
         IN IF hit = {} THEN <<c>>
            ELSE <<c + LowerRuns[CHOOSE k \in hit : TRUE][4]>>

\* the capital sigma at s[i] is final: the nearest character before it that
\* is not case-ignorable is cased, and the nearest one after it, if any, is
\* not
FinalSigma(s, i) ==
    LET before == {j \in 1..(i - 1) : ~CaseIgnorable(s[j])}
        after == {j \in (i + 1)..Len(s) : ~CaseIgnorable(s[j])}
    IN /\ before # {}
       /\ Cased(s[CHOOSE j \in before : \A k \in before : k <= j])
       /\ \/ after = {}
          \/ ~Cased(s[CHOOSE j \in after : \A k \in after : j <= k])

\* what str.lower() makes of the character at s[i]
LowerAt(s, i) ==
    IF s[i] = 931
    THEN IF FinalSigma(s, i) THEN <<962>> ELSE <<963>>
    ELSE LowerChar(s[i])

RECURSIVE LowerFrom(_, _)
LowerFrom(s, i) == IF i > Len(s) THEN <<>> ELSE LowerAt(s, i) \o LowerFrom(s, i + 1)

\* str.lower()
Lower(s) == LowerFrom(s, 1)

RECURSIVE LStrip(_)
LStrip(s) == IF s # <<>> /\ Head(s) \in Whitespace THEN LStrip(Tail(s)) ELSE s

RECURSIVE RStrip(_)
RStrip(s) ==
    IF s # <<>> /\ s[Len(s)] \in Whitespace
    THEN RStrip(SubSeq(s, 1, Len(s) - 1))
    ELSE s

\* str.strip()
Strip(s) == RStrip(LStrip(s))

\* cmd = line.decode().strip().lower()
Normalize(line) == Lower(Strip(line))

\* "takeoff"
CmdTakeoff == <<116, 97, 107, 101, 111, 102, 102>>
\* "take off"
CmdTakeOff == <<116, 97, 107, 101, 32, 111, 102, 102>>
\* "mission"
CmdMission == <<109, 105, 115, 115, 105, 111, 110>>
\* "land"
CmdLand == <<108, 97, 110, 100>>
\* "status"
CmdStatus == <<115, 116, 97, 116, 117, 115>>
\* "stop"
CmdStop == <<115, 116, 111, 112>>

\* The lines a client sends, as readline() returns them (newline included):
\*   "takeoff\n",  "Take Off\n",  " mission\n",  "LAND\r\n"
\*   "status\n",  "Stop \n",  "hover\n",  "stop it\n"
\*   "STATUS\n",  "land\f\n",  "\v\xa0Mission\u2003\x85\n",  "HOVER\n"
\*   "ta\u212aeoff\n" (KELVIN SIGN),  "\u0130\u03a3 \u03a3\n" (I with dot, sigmas)
Lines ==
    { <<116, 97, 107, 101, 111, 102, 102, 10>>,
      <<84, 97, 107, 101, 32, 79, 102, 102, 10>>,
      <<32, 109, 105, 115, 115, 105, 111, 110, 10>>,
      <<76, 65, 78, 68, 13, 10>>,
      <<115, 116, 97, 116, 117, 115, 10>>,
      <<83, 116, 111, 112, 32, 10>>,
      <<104, 111, 118, 101, 114, 10>>,
      <<115, 116, 111, 112, 32, 105, 116, 10>>,
      <<83, 84, 65, 84, 85, 83, 10>>,
      <<108, 97, 110, 100, 12, 10>>,
      <<11, 160, 77, 105, 115, 115, 105, 111, 110, 8195, 133, 10>>,
      <<72, 79, 86, 69, 82, 10>>,
      <<116, 97, 8490, 101, 111, 102, 102, 10>>,
      <<304, 931, 32, 931, 10>> }

\* The arguments the voice client calls send_cmd with.
SendCmdArgs == {CmdTakeoff, CmdMission, CmdLand, CmdStop}

\* (cmd.strip() + "\n").encode("utf-8")
SendCmdLine(c) == Append(Strip(c), 10)

SentLines == {SendCmdLine(c) : c \in SendCmdArgs}

\* cmd for each of these lines
Norm == [l \in Lines \cup SentLines |-> Normalize(l)]

\* -------------------------------------------------------------- replies
Greeting     == "OK connected to server\n"
OkTakeoff    == "OK takeoff\n"
OkMission    == "OK mission started\n"
OkLand       == "OK land\n"
OkStop       == "OK stop\n"
Ignored      == "IGNORED\n"
ErrNotFlying == "ERR not flying\n"

\* str(True) / str(False), as the f-string of the status reply renders a bool
PyBool(b) == IF b THEN "True" ELSE "False"

\* f"OK connected={conn} flying={state['flying']}\n"
StatusLine(c, f) == "OK connected=" \o PyBool(c) \o " flying=" \o PyBool(f) \o "\n"

\* f"ERR {e}\n"
ErrLine(e) == "ERR " \o e \o "\n"

\* Messages of the exceptions the link's calls and streams raise.
LinkErrs == {"COMMAND_DENIED"}
\* Messages of the exceptions drain() raises on a connection that is lost
\* (ConnectionResetError, BrokenPipeError).
WriteErrs == {"Connection lost", "[Errno 104] Connection reset by peer",
              "[Errno 32] Broken pipe"}
\* str(asyncio.TimeoutError()) is the empty string
TimeoutMsg == ""
\* home is None after the home stream ended: home.latitude_deg raises
NoneHomeMsg == "'NoneType' object has no attribute 'latitude_deg'"
\* conn was never assigned: the f-string raises UnboundLocalError
UnboundConnMsg == "cannot access local variable 'conn' where it is not associated with a value"

\* The texts the server writes and send_cmd builds, as the characters
\* that msg.encode("utf-8") puts on the socket and that
\* .decode("utf-8", errors="ignore") gives back to the reader.
Chars ==
    ("OK connected to server\n" :>
      <<
         79, 75, 32, 99, 111, 110, 110, 101, 99, 116, 101, 100, 32,
         116, 111, 32, 115, 101, 114, 118, 101, 114, 10
      >>)
    @@
    ("OK takeoff\n" :>
      <<
         79, 75, 32, 116, 97, 107, 101, 111, 102, 102, 10
      >>)
    @@
    ("OK mission started\n" :>
      <<
         79, 75, 32, 109, 105, 115, 115, 105, 111, 110, 32, 115, 116,
         97, 114, 116, 101, 100, 10
      >>)
    @@
    ("OK land\n" :>
      <<
         79, 75, 32, 108, 97, 110, 100, 10
      >>)
    @@
    ("OK stop\n" :>
      <<
         79, 75, 32, 115, 116, 111, 112, 10
      >>)
    @@
    ("IGNORED\n" :>
      <<
         73, 71, 78, 79, 82, 69, 68, 10
      >>)
    @@
    ("ERR not flying\n" :>
      <<
         69, 82, 82, 32, 110, 111, 116, 32, 102, 108, 121, 105, 110,
         103, 10
      >>)
    @@
    ("OK connected=True flying=True\n" :>
      <<
         79, 75, 32, 99, 111, 110, 110, 101, 99, 116, 101, 100, 61,
         84, 114, 117, 101, 32, 102, 108, 121, 105, 110, 103, 61, 84,
         114, 117, 101, 10
      >>)
    @@
    ("OK connected=True flying=False\n" :>
      <<
         79, 75, 32, 99, 111, 110, 110, 101, 99, 116, 101, 100, 61,
         84, 114, 117, 101, 32, 102, 108, 121, 105, 110, 103, 61, 70,
         97, 108, 115, 101, 10
      >>)
    @@
    ("OK connected=False flying=True\n" :>
      <<
         79, 75, 32, 99, 111, 110, 110, 101, 99, 116, 101, 100, 61,
         70, 97, 108, 115, 101, 32, 102, 108, 121, 105, 110, 103, 61,
         84, 114, 117, 101, 10
      >>)
    @@
    ("OK connected=False flying=False\n" :>
      <<
         79, 75, 32, 99, 111, 110, 110, 101, 99, 116, 101, 100, 61,
         70, 97, 108, 115, 101, 32, 102, 108, 121, 105, 110, 103, 61,
         70, 97, 108, 115, 101, 10
      >>)
    @@
    ("ERR COMMAND_DENIED\n" :>
      <<
         69, 82, 82, 32, 67, 79, 77, 77, 65, 78, 68, 95, 68, 69, 78,
         73, 69, 68, 10
      >>)
    @@
    ("ERR Connection lost\n" :>
      <<
         69, 82, 82, 32, 67, 111, 110, 110, 101, 99, 116, 105, 111,
         110, 32, 108, 111, 115, 116, 10
      >>)
    @@
    ("ERR [Errno 104] Connection reset by peer\n" :>
      <<
         69, 82, 82, 32, 91, 69, 114, 114, 110, 111, 32, 49, 48, 52,
         93, 32, 67, 111, 110, 110, 101, 99, 116, 105, 111, 110, 32,
         114, 101, 115, 101, 116, 32, 98, 121, 32, 112, 101, 101, 114,
         10
      >>)
    @@
    ("ERR [Errno 32] Broken pipe\n" :>
      <<
         69, 82, 82, 32, 91, 69, 114, 114, 110, 111, 32, 51, 50, 93,
         32, 66, 114, 111, 107, 101, 110, 32, 112, 105, 112, 101, 10
      >>)
    @@
    ("ERR \n" :>
      <<
         69, 82, 82, 32, 10
      >>)
    @@
    ("ERR 'NoneType' object has no attribute 'latitude_deg'\n" :>
      <<
         69, 82, 82, 32, 39, 78, 111, 110, 101, 84, 121, 112, 101, 39,
         32, 111, 98, 106, 101, 99, 116, 32, 104, 97, 115, 32, 110,
         111, 32, 97, 116, 116, 114, 105, 98, 117, 116, 101, 32, 39,
         108, 97, 116, 105, 116, 117, 100, 101, 95, 100, 101, 103, 39,
         10
      >>)
    @@
    ("ERR cannot access local variable 'conn' where it is not associated with a value\n" :>
      <<
         69, 82, 82, 32, 99, 97, 110, 110, 111, 116, 32, 97, 99, 99,
         101, 115, 115, 32, 108, 111, 99, 97, 108, 32, 118, 97, 114,
         105, 97, 98, 108, 101, 32, 39, 99, 111, 110, 110, 39, 32,
         119, 104, 101, 114, 101, 32, 105, 116, 32, 105, 115, 32, 110,
         111, 116, 32, 97, 115, 115, 111, 99, 105, 97, 116, 101, 100,
         32, 119, 105, 116, 104, 32, 97, 32, 118, 97, 108, 117, 101,
         10
      >>)
    @@
    ("ERR cannot reach WSL server: timed out" :>
      <<
         69, 82, 82, 32, 99, 97, 110, 110, 111, 116, 32, 114, 101, 97,
         99, 104, 32, 87, 83, 76, 32, 115, 101, 114, 118, 101, 114,
         58, 32, 116, 105, 109, 101, 100, 32, 111, 117, 116
      >>)
    @@
    ("ERR cannot reach WSL server: [Errno 111] Connection refused" :>
      <<
         69, 82, 82, 32, 99, 97, 110, 110, 111, 116, 32, 114, 101, 97,
         99, 104, 32, 87, 83, 76, 32, 115, 101, 114, 118, 101, 114,
         58, 32, 91, 69, 114, 114, 110, 111, 32, 49, 49, 49, 93, 32,
         67, 111, 110, 110, 101, 99, 116, 105, 111, 110, 32, 114, 101,
         102, 117, 115, 101, 100
      >>)

\* --------------------------------------------------------- mission plan
\* Latitudes and longitudes are integers in units of 1e-7 degree, a
\* float's value truncated to that unit; lengths are in metres, speeds in
\* metres per second.
PerDegree == 10000000

\* 1.11e5, the metres in a degree of latitude
MetresPerDegree == 111000

\* the lower bound 0.2 of the cosine, in millionths
MinCosE6 == 200000

\* the defaults of alt, side_m and speed_m_s
DefaultAlt == 5
DefaultSide == 10
DefaultSpeed == 5

\* abs(math.cos(math.radians(lat))) in millionths, truncated, for the
\* latitudes that occur
AbsCosE6 ==
    (0 :> 1000000) @@ (2000 :> 999999) @@ (473977420 :> 676904)
    @@ (-353632610 :> 815499) @@ (600000000 :> 500000)
    @@ (850000000 :> 87155) @@ (-900000000 :> 0)

RECURSIVE Pow10(_)
Pow10(k) == IF k = 0 THEN 1 ELSE 10 * Pow10(k - 1)

\* floor(a * 10^k / c), for 0 <= a and 10 * c within the integers
RECURSIVE MulPow10Div(_, _, _)
MulPow10Div(a, c, k) ==
    IF k = 0 THEN a \div c
    ELSE (a \div c) * Pow10(k) + MulPow10Div((a % c) * 10, c, k - 1)

\* max(0.2, abs(math.cos(math.radians(lat)))) in millionths
MaxCosE6(lat) == IF AbsCosE6[lat] > MinCosE6 THEN AbsCosE6[lat] ELSE MinCosE6

\* MissionItem(lat, lon, alt, speed, True, nan, ...): the fields that are
\* not nan or NONE
MissionItem(lat, lon, alt, speed, fly) ==
    [latitude_deg |-> lat, longitude_deg |-> lon, relative_altitude_m |-> alt,
     speed_m_s |-> speed, is_fly_through |-> fly]

\* build_square_mission with the third and the fourth item exchanged
build_square_mission_Crossed(lat, lon, alt, side_m, speed_m_s) ==
    LET dlat == (side_m * PerDegree) \div MetresPerDegree
        dlon == MulPow10Div(side_m * (PerDegree \div 1000),
                            (MetresPerDegree \div 1000) * MaxCosE6(lat), 6)
    IN  << MissionItem(lat + dlat, lon, alt, speed_m_s, TRUE),
           MissionItem(lat + dlat, lon + dlon, alt, speed_m_s, TRUE),
           MissionItem(lat, lon, alt, speed_m_s, TRUE),
           MissionItem(lat, lon + dlon, alt, speed_m_s, TRUE) >>

\* build_square_mission: the MissionPlan's items
build_square_mission(lat, lon, alt, side_m, speed_m_s) ==
    LET dlat == (side_m * PerDegree) \div MetresPerDegree
        dlon == MulPow10Div(side_m * (PerDegree \div 1000),
                            (MetresPerDegree \div 1000) * MaxCosE6(lat), 6)
    IN  << MissionItem(lat + dlat, lon, alt, speed_m_s, TRUE),
           MissionItem(lat + dlat, lon + dlon, alt, speed_m_s, TRUE),
           MissionItem(lat, lon + dlon, alt, speed_m_s, TRUE),
           MissionItem(lat, lon, alt, speed_m_s, TRUE) >>

\* a Position of telemetry.home(), the fields that are read
Position(lat, lon) == [latitude_deg |-> lat, longitude_deg |-> lon]

\* the home positions with a valid fix that the link delivers
Homes == {Position(473977420, 85455940), Position(-353632610, 1491652300)}

\* Python's None
None == [none |-> TRUE]

\* an event of drone.core.connection_state()
ConnectionState(b) == [is_connected |-> b]

\* ---------------------------------------------------------------- state
VARIABLES
    boot,       \* where main() is: "connect", "wait_connected", "wait_health",
                \* "start_server", "serving", "returned", "raised"
    connRes,    \* how wait_connected ended ("true", "false", "timeout",
                \* "raised"), "none" before it ends and once start_server has
                \* been called
    healthRes,  \* how wait_health_ok ended ("ok", "ended", "timeout",
                \* "raised"), "none" before it ends and once start_server has
                \* been called
    listening,  \* asyncio.start_server has opened the listening socket
    portFree,   \* no other socket is bound to PORT when asyncio.start_server
                \* binds it
    bootLog,    \* the boot steps main() has started, in order
    flying,     \* state["flying"], shared by all sessions
    linkAir,    \* the vehicle's side: the last takeoff()/land() the link
                \* accepted was a takeoff
    reads,      \* lines readline() has returned, over all sessions
    solo,       \* s when every line read so far was read by session s, 0
                \* before the first line, Several otherwise
    scen,       \* k when the server is solo, the k lines read so far are the
                \* first k commands of Scenario, and every link call and
                \* stream has succeeded with the link connected; ScenOff
                \* otherwise
    pc,         \* pc[s]: the await handle_client of session s is suspended in
    cmd,        \* cmd[s]: the local cmd, <<>> outside a command
    rep,        \* rep[s]: the message handed to safe_write, not yet drained
    conn,       \* conn[s]: the local conn of handle_client, <<>> while unbound
    home,       \* home[s]: the local home of handle_client, <<>> while
                \* unbound, <<None>> once get_home has returned None
    plan,       \* plan[s]: the local plan of handle_client, <<>> while unbound
    got,        \* got[s]: the event a link stream (home, connection_state)
                \* has delivered to the current command of s, <<>> if none
    nRep,       \* nRep[s]: lines written to the socket of s since readline()
                \* last returned (since the accept, before the first line)
    sock,       \* sock[s]: "ok", "broken" once a read or write has failed,
                \* "closed" once the server has closed it
    calls,      \* calls[s]: the link calls the current command of s has
                \* made, in order
    unread,     \* unread[s]: a line the client sent behind its "stop" has
                \* arrived at the server
    sq,         \* a call of build_square_mission on its own: its arguments
                \* and, once it has returned, its items; <<>> in the server
    sc          \* sc[s]: the call of send_cmd whose connection is s: the
                \* line it sends, the socket call it is at ("connect",
                \* "sendall", "recv"), whether the server has taken the
                \* line, the characters that have reached the client's
                \* socket, and <<what it returned>> (<<>> before); <<>>
                \* when the client of s is not send_cmd

bootVars == <<boot, connRes, healthRes, listening, portFree, bootLog>>
sessVars == <<pc, cmd, rep, conn, home, plan, got, nRep, sock, calls, unread, sq, sc>>
vars == <<boot, connRes, healthRes, listening, portFree, bootLog, flying, linkAir,
          reads, solo, scen, pc, cmd, rep, conn, home, plan, got, nRep, sock,
          calls, unread, sq, sc>>

\* The scenario of the spec's testable properties, as normalized commands.
Scenario == <<CmdTakeoff, CmdMission, CmdLand, CmdStatus, CmdStop>>

\* values of solo and scen that are no session and no position
Several == NumSessions + 1
ScenOff == Len(Scenario) + 1

\* solo after session s has read a line
SoloRead(s) == IF solo \in {0, s} THEN s ELSE Several

\* scen after session s has read command c
ScenRead(s, c) ==
    IF /\ scen # ScenOff
       /\ SoloRead(s) = s
       /\ scen < Len(Scenario)
       /\ c = Scenario[scen + 1]
    THEN scen + 1
    ELSE ScenOff

\* the scenario digest after a link event that was nominal or not
ScenLink(ok) == IF ok THEN scen ELSE ScenOff

\* state = {"flying": False}; drone = System(); await drone.connect(...)
ServerInit ==
    /\ boot = "connect"
    /\ connRes = "none"
    /\ healthRes = "none"
    /\ listening = FALSE
    /\ portFree \in BOOLEAN
    /\ bootLog = <<"connect">>
    /\ flying = FALSE
    /\ linkAir = FALSE
    /\ reads = 0
    /\ solo = 0
    /\ scen = 0
    /\ pc = [s \in Sessions |-> "none"]
    /\ cmd = [s \in Sessions |-> <<>>]
    /\ rep = [s \in Sessions |-> ""]
    /\ conn = [s \in Sessions |-> <<>>]
    /\ home = [s \in Sessions |-> <<>>]
    /\ plan = [s \in Sessions |-> <<>>]
    /\ got = [s \in Sessions |-> <<>>]
    /\ nRep = [s \in Sessions |-> 0]
    /\ sock = [s \in Sessions |-> "ok"]
    /\ calls = [s \in Sessions |-> <<>>]
    /\ unread = [s \in Sessions |-> FALSE]

\* the server with clients that send any lines
Init ==
    /\ ServerInit
    /\ sq = <<>>
    /\ sc = [s \in Sessions |-> <<>>]

\* ----------------------------------------------------------------- boot
BootStep(to, cr, hr, log) ==
    /\ boot' = to
    /\ connRes' = cr
    /\ healthRes' = hr
    /\ bootLog' = log
    /\ UNCHANGED <<listening, portFree, flying, linkAir, reads, solo, scen, sessVars>>

\* drone.connect() returns; wait_connected(drone, timeout_s=20.0) is awaited
ConnectReturns ==
    /\ boot = "connect"
    /\ BootStep("wait_connected", connRes, healthRes, Append(bootLog, "wait_connected"))

\* drone.connect() raises: main() ends with the exception
ConnectRaises ==
    /\ boot = "connect"
    /\ BootStep("raised", connRes, healthRes, bootLog)

\* connection_state() delivers is_connected: _wait returns True;
\* wait_health_ok(drone, timeout_s=45.0) is awaited
WaitConnectedTrue ==
    /\ boot = "wait_connected"
    /\ BootStep("wait_health", "true", healthRes, Append(bootLog, "wait_health"))

\* connection_state() ends without a connected event: _wait returns False,
\* which main() does not look at
WaitConnectedEnds ==
    /\ boot = "wait_connected"
    /\ BootStep("wait_health", "false", healthRes, Append(bootLog, "wait_health"))

\* WaitConnectedTimeout without the return of the except clause
WaitConnectedTimeout_GoesOn ==
    /\ boot = "wait_connected"
    /\ BootStep("wait_health", "timeout", healthRes, Append(bootLog, "wait_health"))

\* asyncio.wait_for raises TimeoutError: main() logs and returns
WaitConnectedTimeout ==
    /\ boot = "wait_connected"
    /\ BootStep("returned", "timeout", healthRes, bootLog)

\* the stream raises another exception: main() ends with it
WaitConnectedRaises ==
    /\ boot = "wait_connected"
    /\ BootStep("raised", "raised", healthRes, bootLog)

\* health() delivers global and home position ok;
\* asyncio.start_server(...) is awaited
HealthOk ==
    /\ boot = "wait_health"
    /\ BootStep("start_server", connRes, "ok", Append(bootLog, "start_server"))

\* health() ends first: _wait returns None
HealthEnds ==
    /\ boot = "wait_health"
    /\ BootStep("start_server", connRes, "ended", Append(bootLog, "start_server"))

\* HealthTimeout with a return in the except clause, as after wait_connected
HealthTimeout_Returns ==
    /\ boot = "wait_health"
    /\ BootStep("returned", connRes, "timeout", bootLog)

\* asyncio.wait_for raises TimeoutError: main() warns and goes on
HealthTimeout ==
    /\ boot = "wait_health"
    /\ BootStep("start_server", connRes, "timeout", Append(bootLog, "start_server"))

\* the stream raises another exception: main() ends with it
HealthRaises ==
    /\ boot = "wait_health"
    /\ BootStep("raised", connRes, "raised", bootLog)

\* inside asyncio.start_server: the socket is bound and listens, and
\* create_server yields to the event loop (await sleep(0)) before it returns
StartServerListens ==
    /\ boot = "start_server"
    /\ ~listening
    /\ portFree
    /\ listening' = TRUE
    /\ UNCHANGED <<boot, connRes, healthRes, portFree, bootLog, flying, linkAir,
                   reads, solo, scen, sessVars>>

\* start_server returns; await server.serve_forever()
StartServer ==
    /\ boot = "start_server"
    /\ listening
    /\ boot' = "serving"
    /\ connRes' = "none"
    /\ healthRes' = "none"
    /\ UNCHANGED <<listening, portFree, bootLog, flying, linkAir, reads, solo,
                   scen, sessVars>>

\* start_server raises OSError (address already in use): main() ends with
\* the exception and nothing listens
StartServerRaises ==
    /\ boot = "start_server"
    /\ ~portFree
    /\ boot' = "raised"
    /\ connRes' = "none"
    /\ healthRes' = "none"
    /\ UNCHANGED <<listening, portFree, bootLog, flying, linkAir, reads, solo,
                   scen, sessVars>>

\* ------------------------------------------------------- session helpers
\* the call c of send_cmd after the server has written msg to its
\* connection: the data is at the client's socket until recv() returns
Arrives(c, msg) ==
    IF c # <<>> /\ c.ret = <<>>
    THEN [c EXCEPT !.inbox = c.inbox \o Chars[msg]]
    ELSE c

\* the call c of send_cmd after the server has read its line
Taken(c) == IF c # <<>> THEN [c EXCEPT !.taken = TRUE] ELSE c

\* safe_write succeeded: the line is on the socket of s
Written(s) ==
    /\ nRep' = [nRep EXCEPT ![s] = @ + 1]
    /\ rep' = [rep EXCEPT ![s] = ""]
    /\ sc' = [sc EXCEPT ![s] = Arrives(sc[s], rep[s])]

\* back at line = await reader.readline(): cmd is dead until it is
\* assigned again; conn, home and plan keep their values
Idle(s) ==
    /\ pc' = [pc EXCEPT ![s] = "read"]
    /\ cmd' = [cmd EXCEPT ![s] = <<>>]
    /\ calls' = [calls EXCEPT ![s] = <<>>]
    /\ got' = [got EXCEPT ![s] = <<>>]
    /\ UNCHANGED <<conn, home, plan, sock>>

\* the while loop is left, by break or by an exception: finally:
\* writer.close(); await writer.wait_closed() (its errors swallowed).
\* The locals are dead; cmd is kept as c, which is "stop" after the break
\* of the stop branch and empty otherwise.  The socket is closed whatever
\* state it was in.
Leave(s, c) ==
    /\ pc' = [pc EXCEPT ![s] = "closed"]
    /\ cmd' = [cmd EXCEPT ![s] = c]
    /\ calls' = [calls EXCEPT ![s] = <<>>]
    /\ conn' = [conn EXCEPT ![s] = <<>>]
    /\ home' = [home EXCEPT ![s] = <<>>]
    /\ plan' = [plan EXCEPT ![s] = <<>>]
    /\ got' = [got EXCEPT ![s] = <<>>]
    /\ sock' = [sock EXCEPT ![s] = "closed"]

\* Dispatch without the "if not state['flying']" guard of the mission branch
Dispatch_NoFlyingCheck(c, fl) ==
    IF c \in {CmdTakeoff, CmdTakeOff} THEN "arm"
    ELSE IF c = CmdMission THEN "home"
    ELSE IF c = CmdLand THEN "land"
    ELSE IF c = CmdStatus THEN "status"
    ELSE "w_plain"

\* the branch of the if/elif chain that cmd c takes, as the first await in it
Dispatch(c, fl) ==
    IF c \in {CmdTakeoff, CmdTakeOff} THEN "arm"
    ELSE IF c = CmdMission THEN (IF fl THEN "home" ELSE "w_try")
    ELSE IF c = CmdLand THEN "land"
    ELSE IF c = CmdStatus THEN "status"
    ELSE IF c = CmdStop THEN "w_plain"
    ELSE "w_plain"

\* the message that branch hands to safe_write before any link call, if any
FirstReply(c, fl) ==
    IF c = CmdMission /\ ~fl THEN ErrNotFlying
    ELSE IF c = CmdStop THEN OkStop
    ELSE IF Dispatch(c, fl) = "w_plain" THEN Ignored
    ELSE ""

\* the link call that branch starts with, if any
FirstCall(c, fl) ==
    IF Dispatch(c, fl) = "arm" THEN <<"arm">>
    ELSE IF Dispatch(c, fl) = "home" THEN <<"home">>
    ELSE IF Dispatch(c, fl) = "land" THEN <<"land">>
    ELSE IF Dispatch(c, fl) = "status" THEN <<"connection_state">>
    ELSE <<>>

\* ------------------------------------------------------- accept and read
\* start_server's callback, for a connection the kernel has completed:
\* handle_client starts and writes the greeting.  Connections are numbered
\* in the order they are made and are accepted in that order; a call of
\* send_cmd that returned without a connection has used its number.
Accept(s) ==
    /\ boot = "serving"
    /\ pc[s] = "none"
    /\ sc[s] # <<>> => sc[s].at # "connect"
    /\ \A t \in Sessions :
           t < s => \/ pc[t] # "none"
                    \/ sc[t] # <<>> /\ sc[t].at = "connect" /\ sc[t].ret # <<>>
    /\ pc' = [pc EXCEPT ![s] = "greet"]
    /\ rep' = [rep EXCEPT ![s] = Greeting]
    /\ UNCHANGED <<bootVars, flying, linkAir, reads, solo, scen, cmd, conn, home, plan, got, nRep,
                   sock, calls, unread, sq, sc>>

\* await safe_write(writer, "OK connected to server\n") returns
GreetOk(s) ==
    /\ pc[s] = "greet"
    /\ sock[s] = "ok"
    /\ Written(s)
    /\ pc' = [pc EXCEPT ![s] = "read"]
    /\ UNCHANGED <<bootVars, flying, linkAir, reads, solo, scen, cmd, conn, home, plan, got, sock,
                   calls, unread, sq>>

\* the greeting's drain() raises, outside the try: handle_client ends with
\* the exception and never closes the writer
GreetFails(s) ==
    /\ pc[s] = "greet"
    /\ pc' = [pc EXCEPT ![s] = "aborted"]
    /\ sock' = [sock EXCEPT ![s] = "broken"]
    /\ rep' = [rep EXCEPT ![s] = ""]
    /\ UNCHANGED <<bootVars, flying, linkAir, reads, solo, scen, cmd, conn, home, plan, got, nRep,
                   calls, unread, sq, sc>>


\* Read as it would be if a link call, a pause or a stream wait of
\* another session held the event loop until it returned
Read_Blocked(s, line) ==
    /\ \A u \in Sessions \ {s} :
           pc[u] \notin {"arm", "sleep1", "takeoff", "takeoff_ret", "home",
                         "clear", "sleep03", "upload", "sleep05", "start",
                         "land", "land_ret", "status"}
    /\ pc[s] = "read"
    /\ sock[s] = "ok"
    /\ sc[s] # <<>> => (sc[s].at = "recv" /\ ~sc[s].taken /\ line = sc[s].line)
    /\ sc' = [sc EXCEPT ![s] = Taken(sc[s])]
    /\ reads < MaxCmds \/ ScenRead(s, Norm[line]) # ScenOff
    /\ LET c == Norm[line] IN
        /\ cmd' = [cmd EXCEPT ![s] = c]
        /\ pc' = [pc EXCEPT ![s] = Dispatch(c, flying)]
        /\ rep' = [rep EXCEPT ![s] = FirstReply(c, flying)]
        /\ calls' = [calls EXCEPT ![s] = FirstCall(c, flying)]
        /\ scen' = ScenRead(s, c)
    /\ solo' = SoloRead(s)
    /\ nRep' = [nRep EXCEPT ![s] = 0]
    /\ reads' = reads + 1
    /\ UNCHANGED <<bootVars, flying, linkAir, conn, home, plan, got, sock, unread, sq>>

\* line = await reader.readline() returns a line of the client's; cmd is
\* computed and the if/elif chain runs up to its first await
Read(s, line) ==
    /\ pc[s] = "read"
    /\ sock[s] = "ok"
    /\ sc[s] # <<>> => (sc[s].at = "recv" /\ ~sc[s].taken /\ line = sc[s].line)
    /\ sc' = [sc EXCEPT ![s] = Taken(sc[s])]
    /\ reads < MaxCmds \/ ScenRead(s, Norm[line]) # ScenOff
    /\ LET c == Norm[line] IN
        /\ cmd' = [cmd EXCEPT ![s] = c]
        /\ pc' = [pc EXCEPT ![s] = Dispatch(c, flying)]
        /\ rep' = [rep EXCEPT ![s] = FirstReply(c, flying)]
        /\ calls' = [calls EXCEPT ![s] = FirstCall(c, flying)]
        /\ scen' = ScenRead(s, c)
    /\ solo' = SoloRead(s)
    /\ nRep' = [nRep EXCEPT ![s] = 0]
    /\ reads' = reads + 1
    /\ UNCHANGED <<bootVars, flying, linkAir, conn, home, plan, got, sock, unread, sq>>

\* readline() returns b"": the peer closed; break, then the finally block
ReadEof(s) ==
    /\ pc[s] = "read"
    /\ Leave(s, <<>>)
    /\ UNCHANGED <<bootVars, flying, linkAir, reads, solo, scen, rep, nRep, unread, sq, sc>>

\* ReadFails with the shared state reset when a connection is lost
ReadFails_ResetsFlying(s) ==
    /\ pc[s] = "read"
    /\ Leave(s, <<>>)
    /\ flying' = FALSE
    /\ UNCHANGED <<bootVars, linkAir, reads, solo, scen, rep, nRep, unread, sq, sc>>

\* readline() raises (connection reset): the finally block runs
ReadFails(s) ==
    /\ pc[s] = "read"
    /\ Leave(s, <<>>)
    /\ UNCHANGED <<bootVars, flying, linkAir, reads, solo, scen, rep, nRep, unread, sq, sc>>

\* readline() returns a line that is not UTF-8: line.decode() raises
\* UnicodeDecodeError outside every inner try, cmd is not assigned, nothing
\* is written and the finally block runs
ReadUndecodable(s) ==
    /\ pc[s] = "read"
    /\ sock[s] = "ok"
    /\ sc[s] = <<>>
    /\ reads < MaxCmds
    /\ Leave(s, <<>>)
    /\ reads' = reads + 1
    /\ solo' = SoloRead(s)
    /\ scen' = ScenOff
    /\ nRep' = [nRep EXCEPT ![s] = 0]
    /\ UNCHANGED <<bootVars, flying, linkAir, rep, unread, sq, sc>>

\* a line the client sent behind its "stop" arrives, after handle_client
\* has left its read loop by the break
ClientSendLate(s) ==
    /\ pc[s] = "closed"
    /\ cmd[s] = CmdStop
    /\ ~unread[s]
    /\ unread' = [unread EXCEPT ![s] = TRUE]
    /\ UNCHANGED <<bootVars, flying, linkAir, reads, solo, scen, pc, cmd, rep,
                   conn, home, plan, got, nRep, sock, calls, sq, sc>>

\* ------------------------------------------------------------ the writes
\* WriteTryOk without the continue after "ERR not flying": the mission
\* branch goes on to get_home
WriteTryOk_NoContinue(s) ==
    /\ pc[s] = "w_try"
    /\ sock[s] = "ok"
    /\ Written(s)
    /\ IF rep[s] = ErrNotFlying
       THEN /\ pc' = [pc EXCEPT ![s] = "home"]
            /\ calls' = [calls EXCEPT ![s] = <<"home">>]
            /\ UNCHANGED <<cmd, conn, home, plan, got, sock>>
       ELSE Idle(s)
    /\ UNCHANGED <<bootVars, flying, linkAir, reads, solo, scen, unread, sq>>

\* a safe_write inside a command's try block returns; the loop goes on
\* (after "ERR not flying" by continue)
WriteTryOk(s) ==
    /\ pc[s] = "w_try"
    /\ sock[s] = "ok"
    /\ Written(s)
    /\ Idle(s)
    /\ UNCHANGED <<bootVars, flying, linkAir, reads, solo, scen, unread, sq>>

\* its drain() raises an exception whose str() is e: the except clause of
\* that try sends "ERR <e>"
WriteTryFails(s, e) ==
    /\ pc[s] = "w_try"
    /\ sock' = [sock EXCEPT ![s] = "broken"]
    /\ rep' = [rep EXCEPT ![s] = ErrLine(e)]
    /\ pc' = [pc EXCEPT ![s] = "w_handler"]
    /\ UNCHANGED <<bootVars, flying, linkAir, reads, solo, scen, cmd, conn, home, plan, got, nRep,
                   calls, unread, sq, sc>>

\* the safe_write of an except clause returns; the loop goes on
WriteHandlerOk(s) ==
    /\ pc[s] = "w_handler"
    /\ sock[s] = "ok"
    /\ Written(s)
    /\ Idle(s)
    /\ UNCHANGED <<bootVars, flying, linkAir, reads, solo, scen, unread, sq>>

\* its drain() raises: the exception leaves the loop through finally
WriteHandlerFails(s) ==
    /\ pc[s] = "w_handler"
    /\ rep' = [rep EXCEPT ![s] = ""]
    /\ Leave(s, <<>>)
    /\ UNCHANGED <<bootVars, flying, linkAir, reads, solo, scen, nRep, unread, sq, sc>>

\* WritePlainOk without the break of the stop branch
WritePlainOk_NoBreak(s) ==
    /\ pc[s] = "w_plain"
    /\ sock[s] = "ok"
    /\ Written(s)
    /\ Idle(s)
    /\ UNCHANGED <<bootVars, flying, linkAir, reads, solo, scen, unread, sq>>

\* WritePlainOk with a break in the else branch too
WritePlainOk_BreakAlways(s) ==
    /\ pc[s] = "w_plain"
    /\ sock[s] = "ok"
    /\ Written(s)
    /\ Leave(s, cmd[s])
    /\ UNCHANGED <<bootVars, flying, linkAir, reads, solo, scen, unread, sq>>

\* the safe_write of the stop or the else branch returns: stop breaks out
\* of the loop, the else branch goes on reading
WritePlainOk(s) ==
    /\ pc[s] = "w_plain"
    /\ sock[s] = "ok"
    /\ Written(s)
    /\ IF cmd[s] = CmdStop THEN Leave(s, CmdStop) ELSE Idle(s)
    /\ UNCHANGED <<bootVars, flying, linkAir, reads, solo, scen, unread, sq>>

\* its drain() raises: no try around it but the outer one
WritePlainFails(s) ==
    /\ pc[s] = "w_plain"
    /\ rep' = [rep EXCEPT ![s] = ""]
    /\ Leave(s, <<>>)
    /\ UNCHANGED <<bootVars, flying, linkAir, reads, solo, scen, nRep, unread, sq, sc>>

\* -------------------------------------------------------- link callbacks
\* One await on the link resolves in session s: handle_client moves from
\* the await "from" to the await "to" with the link calls cs and the message
\* r handed to safe_write; ok is whether the link behaved nominally.
Link(s, from, to, cs, r, ok) ==
    /\ pc[s] = from
    /\ pc' = [pc EXCEPT ![s] = to]
    /\ calls' = [calls EXCEPT ![s] = cs]
    /\ rep' = [rep EXCEPT ![s] = r]
    /\ scen' = ScenLink(ok)
    /\ UNCHANGED <<bootVars, reads, solo, cmd, nRep, sock, unread, sq, sc>>

\* a settle pause ends and the next link call op is made
Pause(s, from, to, op) ==
    /\ Link(s, from, to, Append(calls[s], op), "", TRUE)
    /\ UNCHANGED <<flying, linkAir, conn, home, plan, got>>

\* Raise without the except clause: the exception leaves the loop through
\* finally
Raise_Propagates(s, from, msg) ==
    /\ pc[s] = from
    /\ Leave(s, <<>>)
    /\ scen' = ScenLink(FALSE)
    /\ UNCHANGED <<bootVars, flying, linkAir, reads, solo, rep, nRep, unread, sq, sc>>

\* a link call or stream wait raises inside a command's try: the except
\* clause sends str(e), which is msg
Raise(s, from, msg) ==
    /\ Link(s, from, "w_handler", calls[s], ErrLine(msg), FALSE)
    /\ UNCHANGED <<flying, linkAir, conn, home, plan, got>>

\* ---- takeoff
\* await drone.action.arm() returns; await asyncio.sleep(1)
ArmOk(s) ==
    /\ Link(s, "arm", "sleep1", calls[s], "", TRUE)
    /\ UNCHANGED <<flying, linkAir, conn, home, plan, got>>

ArmRaises(s, e) == Raise(s, "arm", e)

\* the sleep ends; await drone.action.takeoff()
Sleep1Done(s) == Pause(s, "sleep1", "takeoff", "takeoff")

\* the link accepts the takeoff; its answer is on the way to the coroutine
TakeoffAccepted(s) ==
    /\ Link(s, "takeoff", "takeoff_ret", calls[s], "", TRUE)
    /\ linkAir' = TRUE
    /\ UNCHANGED <<flying, conn, home, plan, got>>

\* takeoff() returns: state["flying"] = True; safe_write("OK takeoff\n")
TakeoffOk(s) ==
    /\ Link(s, "takeoff_ret", "w_try", calls[s], OkTakeoff, TRUE)
    /\ flying' = TRUE
    /\ UNCHANGED <<linkAir, conn, home, plan, got>>

\* TakeoffRaises with state["flying"] = True moved before the call
TakeoffRaises_SetsFlying(s, e) ==
    /\ Link(s, "takeoff", "w_handler", calls[s], ErrLine(e), FALSE)
    /\ flying' = TRUE
    /\ UNCHANGED <<linkAir, conn, home, plan, got>>

TakeoffRaises(s, e) == Raise(s, "takeoff", e)

\* ---- mission
\* HomeOk with the plan built before get_home is awaited, from the home
\* the local already holds
HomeOk_PlanFirst(s, h) ==
    /\ Link(s, "home", "clear",
            Append(calls[s], "clear_mission"), "", TRUE)
    /\ got' = [got EXCEPT ![s] = <<h>>]
    /\ home' = [home EXCEPT ![s] = <<h>>]
    /\ plan' = [plan EXCEPT ![s] =
                   IF home[s] # <<>> /\ home[s][1] \in Homes
                   THEN build_square_mission(home[s][1].latitude_deg,
                            home[s][1].longitude_deg, DefaultAlt, DefaultSide,
                            DefaultSpeed)
                   ELSE build_square_mission(h.latitude_deg, h.longitude_deg,
                            DefaultAlt, DefaultSide, DefaultSpeed)]
    /\ UNCHANGED <<flying, linkAir, conn>>

\* get_home returns the home h the stream delivered, with a valid fix;
\* plan = build_square_mission(home.latitude_deg, home.longitude_deg);
\* await drone.mission.clear_mission()
HomeOk(s, h) ==
    /\ Link(s, "home", "clear",
            Append(calls[s], "clear_mission"), "", TRUE)
    /\ got' = [got EXCEPT ![s] = <<h>>]
    /\ home' = [home EXCEPT ![s] = <<h>>]
    /\ plan' = [plan EXCEPT ![s] =
                   build_square_mission(h.latitude_deg, h.longitude_deg,
                       DefaultAlt, DefaultSide, DefaultSpeed)]
    /\ UNCHANGED <<flying, linkAir, conn>>

\* the home stream ends: get_home returns None, which is assigned to home,
\* and home.latitude_deg raises before plan is assigned
HomeEnds(s) ==
    /\ Link(s, "home", "w_handler", calls[s], ErrLine(NoneHomeMsg), FALSE)
    /\ home' = [home EXCEPT ![s] = <<None>>]
    /\ UNCHANGED <<flying, linkAir, conn, plan, got>>

\* asyncio.wait_for raises TimeoutError in get_home
HomeTimeout(s) == Raise(s, "home", TimeoutMsg)

HomeRaises(s, e) == Raise(s, "home", e)

\* clear_mission() returns; await asyncio.sleep(0.3)
ClearOk(s) ==
    /\ Link(s, "clear", "sleep03", calls[s], "", TRUE)
    /\ UNCHANGED <<flying, linkAir, conn, home, plan, got>>

\* clear_mission() raises: except Exception: pass;
\* await drone.mission.upload_mission(plan)
ClearRaises(s, e) ==
    /\ Link(s, "clear", "upload",
            Append(calls[s], "upload_mission"), "", FALSE)
    /\ UNCHANGED <<flying, linkAir, conn, home, plan, got>>

Sleep03Done(s) == Pause(s, "sleep03", "upload", "upload_mission")

\* upload_mission() returns; await asyncio.sleep(0.5)
UploadOk(s) ==
    /\ Link(s, "upload", "sleep05", calls[s], "", TRUE)
    /\ UNCHANGED <<flying, linkAir, conn, home, plan, got>>

UploadRaises(s, e) == Raise(s, "upload", e)

Sleep05Done(s) == Pause(s, "sleep05", "start", "start_mission")

\* start_mission() returns; safe_write("OK mission started\n")
StartOk(s) ==
    /\ Link(s, "start", "w_try", calls[s], OkMission, TRUE)
    /\ UNCHANGED <<flying, linkAir, conn, home, plan, got>>

StartRaises(s, e) == Raise(s, "start", e)

\* ---- land
\* the link accepts the land; its answer is on the way to the coroutine
LandAccepted(s) ==
    /\ Link(s, "land", "land_ret", calls[s], "", TRUE)
    /\ linkAir' = FALSE
    /\ UNCHANGED <<flying, conn, home, plan, got>>

\* LandOk without the assignment state["flying"] = False
LandOk_KeepsFlying(s) ==
    /\ Link(s, "land_ret", "w_try", calls[s], OkLand, TRUE)
    /\ UNCHANGED <<flying, linkAir, conn, home, plan, got>>

\* land() returns: state["flying"] = False; safe_write("OK land\n")
LandOk(s) ==
    /\ Link(s, "land_ret", "w_try", calls[s], OkLand, TRUE)
    /\ flying' = FALSE
    /\ UNCHANGED <<linkAir, conn, home, plan, got>>

\* LandRaises with state["flying"] = False moved before the call
LandRaises_ClearsFlying(s, e) ==
    /\ Link(s, "land", "w_handler", calls[s], ErrLine(e), FALSE)
    /\ flying' = FALSE
    /\ UNCHANGED <<linkAir, conn, home, plan, got>>

LandRaises(s, e) == Raise(s, "land", e)

\* ---- status
\* connection_state() delivers an event: conn = is_connected; break;
\* the reply is formatted from conn and state["flying"]
StatusEvent(s, b) ==
    /\ Link(s, "status", "w_try", calls[s], StatusLine(b, flying), b)
    /\ conn' = [conn EXCEPT ![s] = <<b>>]
    /\ got' = [got EXCEPT ![s] = <<ConnectionState(b)>>]
    /\ UNCHANGED <<flying, linkAir, home, plan>>

\* connection_state() ends without an event: the loop body never ran, and
\* the f-string reads conn as the function left it
StatusEnds(s) ==
    /\ IF conn[s] = <<>>
       THEN Link(s, "status", "w_handler", calls[s],
                 ErrLine(UnboundConnMsg), FALSE)
       ELSE Link(s, "status", "w_try", calls[s],
                 StatusLine(conn[s][1], flying), FALSE)
    /\ UNCHANGED <<flying, linkAir, conn, home, plan, got>>

StatusRaises(s, e) == Raise(s, "status", e)

\* ------------------------------------------------------------------ next
BootNext ==
    \/ ConnectReturns
    \/ ConnectRaises
    \/ WaitConnectedTrue
    \/ WaitConnectedEnds
    \/ WaitConnectedTimeout
    \/ WaitConnectedRaises
    \/ HealthOk
    \/ HealthEnds
    \/ HealthTimeout
    \/ HealthRaises
    \/ StartServerListens
    \/ StartServer
    \/ StartServerRaises

Session(s) ==
    \/ Accept(s)
    \/ GreetOk(s)
    \/ GreetFails(s)
    \/ \E line \in Lines : Read(s, line)
    \/ ReadEof(s)
    \/ ReadFails(s)
    \/ ReadUndecodable(s)
    \/ ClientSendLate(s)
    \/ WriteTryOk(s)
    \/ \E e \in WriteErrs : WriteTryFails(s, e)
    \/ WriteHandlerOk(s)
    \/ WriteHandlerFails(s)
    \/ WritePlainOk(s)
    \/ WritePlainFails(s)
    \/ ArmOk(s)
    \/ \E e \in LinkErrs : ArmRaises(s, e)
    \/ Sleep1Done(s)
    \/ TakeoffAccepted(s)
    \/ TakeoffOk(s)
    \/ \E e \in LinkErrs : TakeoffRaises(s, e)
    \/ \E h \in Homes : HomeOk(s, h)
    \/ HomeEnds(s)
    \/ HomeTimeout(s)
    \/ \E e \in LinkErrs : HomeRaises(s, e)
    \/ ClearOk(s)
    \/ \E e \in LinkErrs : ClearRaises(s, e)
    \/ Sleep03Done(s)
    \/ UploadOk(s)
    \/ \E e \in LinkErrs : UploadRaises(s, e)
    \/ Sleep05Done(s)
    \/ StartOk(s)
    \/ \E e \in LinkErrs : StartRaises(s, e)
    \/ LandAccepted(s)
    \/ LandOk(s)
    \/ \E e \in LinkErrs : LandRaises(s, e)
    \/ \E b \in BOOLEAN : StatusEvent(s, b)
    \/ StatusEnds(s)
    \/ \E e \in LinkErrs : StatusRaises(s, e)

Next == BootNext \/ \E s \in Sessions : Session(s)

Spec == Init /\ [][Next]_vars

\* the event loop runs every coroutine that is ready: a reply handed to
\* safe_write on a socket that works gets written.  Nothing is assumed
\* of the link, whose calls and streams may never return.
WritesFairSpec ==
    /\ Spec
    /\ \A s \in Sessions :
           WF_vars(WriteTryOk(s) \/ WriteHandlerOk(s) \/ WritePlainOk(s))

\* ------------------------------------------- the voice client's send_cmd
\* The server with the voice client as its only client: every connection
\* is one call of send_cmd, which connects, sends one line, returns what its
\* first recv() returns and closes the socket.  The calls are made one
\* after the other, and none after send_cmd("stop").
SendCmdInit ==
    /\ ServerInit
    /\ sq = <<>>
    /\ sc \in [Sessions -> [line : SentLines, at : {"connect"}, taken : {FALSE},
                            inbox : {<<>>}, ret : {<<>>}]]

\* send_cmd has returned on connection s, and its with block has closed
\* the socket if there was one
Returned(s) == sc[s].ret # <<>>

\* str(e) of the socket's timeout and of ConnectionRefusedError
TimedOut == "timed out"
Refused == "[Errno 111] Connection refused"

\* f"ERR cannot reach WSL server: {e}"
CannotReach(e) == Chars["ERR cannot reach WSL server: " \o e]

\* the calls of send_cmd are made one after the other, and none after
\* send_cmd("stop"): call s is made and is in create_connection
Connecting(s) ==
    /\ \A t \in Sessions :
           t < s => Returned(t) /\ sc[t].line # SendCmdLine(CmdStop)
    /\ ~Returned(s)
    /\ sc[s].at = "connect"

\* socket.create_connection returns: the kernel has completed the
\* connection from the backlog of the listening socket, whether or not the
\* server's loop has run
SendCmdConnect(s) ==
    /\ Connecting(s)
    /\ listening
    /\ sc' = [sc EXCEPT ![s] = [@ EXCEPT !.at = "sendall"]]
    /\ UNCHANGED <<bootVars, flying, linkAir, reads, solo, scen, pc, cmd, rep,
                   conn, home, plan, got, nRep, sock, calls, unread, sq>>

\* nothing listens on the port: create_connection raises
\* ConnectionRefusedError, and send_cmd returns the error text
SendCmdRefused(s) ==
    /\ Connecting(s)
    /\ ~listening
    /\ sc' = [sc EXCEPT ![s] = [@ EXCEPT !.ret = <<CannotReach(Refused)>>]]
    /\ UNCHANGED <<bootVars, flying, linkAir, reads, solo, scen, pc, cmd, rep,
                   conn, home, plan, got, nRep, sock, calls, unread, sq>>

\* the connect gets no answer within timeout=2: create_connection raises
\* the timeout with no connection made
SendCmdConnectTimeout(s) ==
    /\ Connecting(s)
    /\ sc' = [sc EXCEPT ![s] = [@ EXCEPT !.ret = <<CannotReach(TimedOut)>>]]
    /\ UNCHANGED <<bootVars, flying, linkAir, reads, solo, scen, pc, cmd, rep,
                   conn, home, plan, got, nRep, sock, calls, unread, sq>>

\* s.sendall(...) returns: the line is on its way to the server
SendCmdSendall(s) ==
    /\ ~Returned(s)
    /\ sc[s].at = "sendall"
    /\ sc' = [sc EXCEPT ![s] = [@ EXCEPT !.at = "recv"]]
    /\ UNCHANGED <<bootVars, flying, linkAir, reads, solo, scen, pc, cmd, rep,
                   conn, home, plan, got, nRep, sock, calls, unread, sq>>

\* s.recv(1024) returns the data that has arrived, and send_cmd returns
\* it decoded and stripped
SendCmdRecv(s) ==
    /\ ~Returned(s)
    /\ sc[s].at = "recv"
    /\ sc[s].inbox # <<>>
    /\ sc' = [sc EXCEPT ![s] = [@ EXCEPT !.ret = <<Strip(sc[s].inbox)>>,
                                         !.inbox = <<>>]]
    /\ UNCHANGED <<bootVars, flying, linkAir, reads, solo, scen, pc, cmd, rep,
                   conn, home, plan, got, nRep, sock, calls, unread, sq>>

\* s.recv(1024) times out (timeout=2) before the greeting has arrived
SendCmdTimeout(s) ==
    /\ ~Returned(s)
    /\ sc[s].at = "recv"
    /\ sc[s].inbox = <<>>
    /\ sc' = [sc EXCEPT ![s] = [@ EXCEPT !.ret = <<CannotReach(TimedOut)>>]]
    /\ UNCHANGED <<bootVars, flying, linkAir, reads, solo, scen, pc, cmd, rep,
                   conn, home, plan, got, nRep, sock, calls, unread, sq>>

SendCmdSession(s) ==
    \/ SendCmdConnect(s)
    \/ Accept(s)
    \/ SendCmdRefused(s)
    \/ SendCmdConnectTimeout(s)
    \/ SendCmdSendall(s)
    \/ GreetOk(s)
    \/ Returned(s) /\ GreetFails(s)
    \/ \E line \in SentLines : Read(s, line)
    \/ Returned(s) /\ sc[s].taken /\ ReadEof(s)
    \/ Returned(s) /\ ReadFails(s)
    \/ SendCmdRecv(s)
    \/ SendCmdTimeout(s)
    \/ WriteTryOk(s)
    \/ Returned(s) /\ \E e \in WriteErrs : WriteTryFails(s, e)
    \/ WriteHandlerOk(s)
    \/ Returned(s) /\ WriteHandlerFails(s)
    \/ WritePlainOk(s)
    \/ Returned(s) /\ WritePlainFails(s)
    \/ ArmOk(s)
    \/ \E e \in LinkErrs : ArmRaises(s, e)
    \/ Sleep1Done(s)
    \/ TakeoffAccepted(s)
    \/ TakeoffOk(s)
    \/ \E e \in LinkErrs : TakeoffRaises(s, e)
    \/ \E h \in Homes : HomeOk(s, h)
    \/ HomeEnds(s)
    \/ HomeTimeout(s)
    \/ \E e \in LinkErrs : HomeRaises(s, e)
    \/ ClearOk(s)
    \/ \E e \in LinkErrs : ClearRaises(s, e)
    \/ Sleep03Done(s)
    \/ UploadOk(s)
    \/ \E e \in LinkErrs : UploadRaises(s, e)
    \/ Sleep05Done(s)
    \/ StartOk(s)
    \/ \E e \in LinkErrs : StartRaises(s, e)
    \/ LandAccepted(s)
    \/ LandOk(s)
    \/ \E e \in LinkErrs : LandRaises(s, e)

SendCmdNext == BootNext \/ \E s \in Sessions : SendCmdSession(s)

SendCmdSpec == SendCmdInit /\ [][SendCmdNext]_vars

\* -------------------------------------------- build_square_mission alone
\* The arguments a call of build_square_mission is checked on.
SqLats == DOMAIN AbsCosE6
SqLons == {-1224194000, 0, 85455940}
SqSides == {1, 10, 100}
SqAlts == {5, 20}
SqSpeeds == {2, 5}

\* a call with arguments drawn from these sets is about to be made
SqInit ==
    /\ ServerInit
    /\ sq \in [lat : SqLats, lon : SqLons, alt : SqAlts, side_m : SqSides,
                speed_m_s : SqSpeeds, items : {<<>>}]
    /\ sc = [s \in Sessions |-> <<>>]

\* the call returns MissionPlan(items)
SqBuild ==
    /\ sq.items = <<>>
    /\ sq' = [sq EXCEPT !.items =
                 build_square_mission(sq.lat, sq.lon, sq.alt, sq.side_m,
                                      sq.speed_m_s)]
    /\ UNCHANGED <<bootVars, flying, linkAir, reads, solo, scen, pc, cmd, rep,
                   conn, home, plan, got, nRep, sock, calls, unread, sc>>

SqSpec == SqInit /\ [][SqBuild]_vars

\* =================================================================
\* Claims
\* =================================================================

\* session s is in a safe_write of a command's reply on a socket that works
Writing(s) == pc[s] \in {"w_try", "w_handler", "w_plain"} /\ sock[s] = "ok"

\* the step is one of session s
Steps(s) == pc'[s] # pc[s]

\* ---------------------------------------------------------------- C1
C1_Step(s) ==
    /\ (pc[s] = "read" /\ Steps(s) /\ cmd'[s] = CmdMission /\ ~flying)
        => /\ pc'[s] = "w_try"
           /\ rep'[s] = ErrNotFlying
           /\ calls'[s] = <<>>
    /\ (pc[s] = "w_try" /\ cmd[s] = CmdMission /\ calls[s] = <<>> /\ Steps(s))
        => \/ pc'[s] = "read" /\ rep[s] = ErrNotFlying /\ nRep'[s] = 1
           \/ pc'[s] = "w_handler" /\ sock'[s] = "broken" /\ calls'[s] = <<>>
    /\ (pc[s] = "w_handler" /\ sock[s] = "broken" /\ Steps(s))
        => pc'[s] = "closed" /\ nRep'[s] = nRep[s]

\* C1: a mission command read while state["flying"] is False is answered
\* with exactly "ERR not flying" and makes no link call: the line read takes
\* handle_client straight to the write of that reply with no call made, the
\* write puts that one line on the socket and returns to readline(), and if
\* the write fails the session ends, again without a link call.
C1_MissionNotFlying == [][\A s \in Sessions : C1_Step(s)]_vars

\* a mission command was read while grounded and its reply is being written
C1_Witness ==
    \E s \in Sessions :
        /\ Writing(s)
        /\ pc[s] = "w_try"
        /\ cmd[s] = CmdMission
        /\ rep[s] = ErrNotFlying
        /\ calls[s] = <<>>
        /\ ~flying

\* ---------------------------------------------------------------- C2
C2_Step ==
    flying' # flying =>
        \E s \in Sessions :
            \/ /\ flying'
               /\ pc[s] = "takeoff_ret"
               /\ cmd[s] \in {CmdTakeoff, CmdTakeOff}
               /\ calls[s] = <<"arm", "takeoff">>
               /\ pc'[s] = "w_try"
               /\ rep'[s] = OkTakeoff
            \/ /\ ~flying'
               /\ pc[s] = "land_ret"
               /\ cmd[s] = CmdLand
               /\ calls[s] = <<"land">>
               /\ pc'[s] = "w_try"
               /\ rep'[s] = OkLand

\* C2: state["flying"] starts False; it becomes True only in the step in
\* which the takeoff() of a takeoff command returns, after that command's
\* arm() returned, and False only in the step in which the land() of a land
\* command returns; no other step of any session writes it.
C2_FlyingWrites == ~flying /\ [][C2_Step]_vars

\* two sessions are open, one has taken off and is writing "OK takeoff"
C2_Witness ==
    \E s, t \in Sessions :
        /\ s # t
        /\ pc[t] \notin {"none", "greet", "closed", "aborted"}
        /\ pc[s] = "w_try"
        /\ rep[s] = OkTakeoff
        /\ flying

\* ---------------------------------------------------------------- C3
C3_Step(s) ==
    /\ (pc[s] \in {"arm", "takeoff", "land"} /\ pc'[s] = "w_handler")
        => /\ flying' = flying
           /\ \E e \in LinkErrs : rep'[s] = ErrLine(e)
           /\ sock'[s] = "ok"
    /\ (/\ pc[s] = "w_handler"
        /\ sock[s] = "ok"
        /\ cmd[s] \in {CmdTakeoff, CmdTakeOff, CmdLand}
        /\ Steps(s))
        => /\ flying' = flying
           /\ \/ pc'[s] = "read" /\ nRep'[s] = 1 /\ sock'[s] = "ok"
              \/ pc'[s] = "closed"

\* C3: when arm(), takeoff() or land() raises, the command hands
\* "ERR <message of the link's error>" to safe_write without writing
\* state["flying"]; writing that reply does not write it either, and once
\* the reply is written the session is back at readline(), where the
\* command can be sent again.
C3_FailureKeepsState == [][\A s \in Sessions : C3_Step(s)]_vars

\* arm() succeeded, takeoff() raised, and the ERR reply is being written
C3_Witness ==
    \E s \in Sessions :
        /\ Writing(s)
        /\ pc[s] = "w_handler"
        /\ calls[s] = <<"arm", "takeoff">>
        /\ rep[s] = ErrLine("COMMAND_DENIED")

\* ---------------------------------------------------------------- C4
\* C4: while one session alone has sent commands, the flying value of every
\* status reply is False before any takeoff was accepted, True after an
\* accepted takeoff, and False again after an accepted land: it is the
\* vehicle's side of the flag.
C4_StatusFollowsFlight ==
    \A s \in Sessions :
        (solo = s /\ pc[s] = "w_try" /\ cmd[s] = CmdStatus)
            => \E c \in BOOLEAN : rep[s] = StatusLine(c, linkAir)

\* a lone session took off and its status reply says so
C4_Witness ==
    \E s \in Sessions :
        /\ solo = s
        /\ Writing(s)
        /\ cmd[s] = CmdStatus
        /\ linkAir
        /\ rep[s] = StatusLine(TRUE, TRUE)

\* ---------------------------------------------------------------- C5
\* the replies the spec's scenario expects, in order
ScenarioReplies ==
    <<OkTakeoff, OkMission, OkLand, "OK connected=true flying=false\n", OkStop>>

\* C5: when one client sends takeoff, mission, land, status, stop in that
\* order, alone, and every link call succeeds with the link connected, the
\* reply written to each command is the one the scenario expects, the
\* status reply being "OK connected=true flying=false".
C5_ScenarioReplies ==
    \A s \in Sessions :
        (solo = s /\ scen \in 1..Len(Scenario) /\ Writing(s))
            => rep[s] = ScenarioReplies[scen]

\* ---------------------------------------------------------------- C6
C6_Step(s) ==
    /\ (pc[s] = "read" /\ Steps(s) /\ cmd'[s] = CmdStop)
        => pc'[s] = "w_plain" /\ rep'[s] = OkStop /\ calls'[s] = <<>>
    /\ (pc[s] = "w_plain" /\ cmd[s] = CmdStop /\ Steps(s))
        => /\ pc'[s] = "closed"
           /\ rep[s] = OkStop
           /\ nRep'[s] <= 1
           /\ UNCHANGED <<flying, linkAir, reads>>
    /\ (pc[s] = "read" /\ pc'[s] = "closed")
        => /\ UNCHANGED <<rep, flying, linkAir>>
           /\ nRep'[s] <= nRep[s]
           /\ reads' = reads => UNCHANGED nRep
    /\ pc[s] = "closed"
        => /\ pc'[s] = "closed"
           /\ nRep'[s] = nRep[s]
           /\ rep'[s] = "" /\ calls'[s] = <<>> /\ cmd'[s] = cmd[s]
    /\ unread'[s] # unread[s]
        => UNCHANGED <<flying, linkAir, reads, pc, rep, nRep, calls>>

\* C6: a session that reads "stop" writes exactly "OK stop" and closes the
\* connection; a closed session writes nothing more and reads nothing
\* more, so a line the client sent behind "stop" causes no link call and no
\* write of state["flying"]; and on end-of-stream, as on any read that
\* ends the session, it closes without writing anything.
C6_StopEndsSession == [][\A s \in Sessions : C6_Step(s)]_vars

\* "OK stop" was written, the connection is closed, and a line the client
\* sent behind its "stop" has arrived
C6_Witness ==
    \E s \in Sessions :
        /\ pc[s] = "closed"
        /\ cmd[s] = CmdStop
        /\ nRep[s] = 1
        /\ unread[s]

\* ---------------------------------------------------------------- C7
Known == {CmdTakeoff, CmdTakeOff, CmdMission, CmdLand, CmdStatus, CmdStop}

C7_Step(s) ==
    /\ (pc[s] = "read" /\ Steps(s) /\ pc'[s] # "closed" /\ cmd'[s] \notin Known)
        => /\ pc'[s] = "w_plain"
           /\ rep'[s] = Ignored
           /\ calls'[s] = <<>>
           /\ UNCHANGED <<flying, linkAir>>
    /\ (pc[s] = "w_plain" /\ cmd[s] \notin Known /\ Steps(s))
        => /\ rep[s] = Ignored
           /\ UNCHANGED <<flying, linkAir>>
           /\ \/ pc'[s] = "read" /\ nRep'[s] = 1 /\ sock'[s] = "ok"
              \/ pc'[s] = "closed" /\ nRep'[s] = 0

\* C7: a line whose trimmed, lowercased text is none of takeoff, take off,
\* mission, land, status, stop is answered with exactly "IGNORED", with no
\* link call and no write of state["flying"], and once the reply is written
\* the session is back at readline().
C7_UnknownIgnored == [][\A s \in Sessions : C7_Step(s)]_vars

\* "stop it" was read while flying and "IGNORED" is being written
C7_Witness ==
    \E s \in Sessions :
        /\ Writing(s)
        /\ cmd[s] = Normalize(<<115, 116, 111, 112, 32, 105, 116, 10>>)
        /\ rep[s] = Ignored
        /\ flying

\* ---------------------------------------------------------------- C8
\* the messages of the exceptions a command's except clause can send
ErrMsgs == LinkErrs \cup WriteErrs \cup {TimeoutMsg, NoneHomeMsg, UnboundConnMsg}

\* reply r answers command c
Answers(c, r) ==
    \/ c \in {CmdTakeoff, CmdTakeOff} /\ r = OkTakeoff
    \/ c = CmdMission /\ r \in {OkMission, ErrNotFlying}
    \/ c = CmdLand /\ r = OkLand
    \/ c = CmdStatus /\ \E a, b \in BOOLEAN : r = StatusLine(a, b)
    \/ c = CmdStop /\ r = OkStop
    \/ c \notin Known /\ r = Ignored
    \/ c \in Known \ {CmdStop} /\ \E m \in ErrMsgs : r = ErrLine(m)

\* C8: the first line on every connection is the greeting; whenever a
\* session waits for a line, exactly one line has been written since the
\* last one was read (the greeting, before the first); a session never
\* writes a second line for one command, writes none before the command's
\* work is done, and the line it writes answers the command it read last;
\* a session is at one place of one command at a time.
C8_OneReplyPerLine ==
    \A s \in Sessions :
        /\ nRep[s] \in {0, 1}
        /\ pc[s] = "none" => nRep[s] = 0 /\ rep[s] = ""
        /\ pc[s] = "greet" => nRep[s] = 0 /\ rep[s] = Greeting /\ cmd[s] = <<>>
        /\ pc[s] = "read" => nRep[s] = 1 /\ rep[s] = "" /\ cmd[s] = <<>>
        /\ pc[s] \in {"w_try", "w_handler", "w_plain"} => nRep[s] = 0
        /\ Writing(s) => Answers(cmd[s], rep[s])
        /\ pc[s] \notin {"none", "greet", "read", "w_try", "w_handler",
                         "w_plain", "closed", "aborted"}
            => nRep[s] = 0 /\ rep[s] = "" /\ cmd[s] \in Known \ {CmdStop}
        /\ (pc[s] = "closed" /\ cmd[s] = CmdStop) => nRep[s] = 1

\* a mission's upload raised after the clear had raised too, and the one
\* ERR reply is being written while the other session is in a command
C8_Witness ==
    \E s, t \in Sessions :
        /\ s # t
        /\ Writing(s)
        /\ pc[s] = "w_handler"
        /\ calls[s] = <<"home", "clear_mission", "upload_mission">>
        /\ nRep[s] = 0
        /\ pc[t] \in {"arm", "land", "status", "home"}

\* ---------------------------------------------------------------- C9
\* C9: when the boot-time wait for the connection times out, main() has
\* returned: the listening socket is never opened, no session is accepted,
\* and neither the health wait nor start_server is ever started.
C9_ConnectTimeoutStopsBoot ==
    connRes = "timeout" =>
        /\ boot = "returned"
        /\ ~listening
        /\ bootLog = <<"connect", "wait_connected">>
        /\ \A s \in Sessions : pc[s] = "none"

\* the connection wait has timed out
C9_Witness == connRes = "timeout" /\ boot = "returned"

\* --------------------------------------------------------------- C10
\* main() is one coroutine of the event loop: the health wait is bounded by
\* asyncio.wait_for, so it ends one way or another, and start_server
\* returns or raises
FairSpec ==
    /\ Spec
    /\ WF_vars(HealthOk \/ HealthEnds \/ HealthTimeout \/ HealthRaises)
    /\ WF_vars(StartServerListens \/ StartServerRaises)
    /\ WF_vars(StartServer)

BootOrder == <<"connect", "wait_connected", "wait_health", "start_server">>

C10_Order ==
    /\ Len(bootLog) <= Len(BootOrder)
    /\ bootLog = SubSeq(BootOrder, 1, Len(bootLog))
    /\ listening => bootLog = BootOrder
    /\ healthRes \in {"ok", "ended", "timeout"} => boot = "start_server"

\* C10: the boot steps are begun in the order connect, wait_connected,
\* wait_health_ok, start_server, and the socket listens only after all
\* four; a health wait that times out leaves main() at start_server like
\* one that resolves; and once the connection wait has succeeded and the
\* health wait has resolved or timed out, the server eventually serves,
\* provided the port can be bound.
C10_BootReachesAccept ==
    /\ []C10_Order
    /\ (connRes = "true" /\ healthRes \in {"ok", "ended", "timeout"} /\ portFree)
           ~> (boot = "serving" /\ listening)

\* the connection wait succeeded, the health wait timed out, and main()
\* is starting the server
C10_Witness ==
    /\ connRes = "true"
    /\ healthRes = "timeout"
    /\ portFree
    /\ boot = "start_server"
    /\ bootLog = BootOrder

\* --------------------------------------------------------------- C11
\* the awaits of handle_client on the link, its streams and its pauses
LinkAwaits ==
    {"arm", "sleep1", "takeoff", "takeoff_ret", "home", "clear", "sleep03",
     "upload", "sleep05", "start", "land", "land_ret", "status"}

C11_Step(s) ==
    /\ (pc[s] \in LinkAwaits /\ Steps(s))
        => /\ pc'[s] \in LinkAwaits \cup {"w_try", "w_handler"}
           /\ sock'[s] = sock[s]
           /\ nRep'[s] = 0
           /\ UNCHANGED <<boot, listening>>
           /\ \A t \in Sessions \ {s} : pc'[t] = pc[t]
           /\ pc'[s] = "w_handler" =>
                  \E m \in ErrMsgs : rep'[s] = ErrLine(m)
    /\ (pc[s] = "w_handler" /\ sock[s] = "ok" /\ Steps(s))
        => \/ pc'[s] = "read" /\ nRep'[s] = 1 /\ sock'[s] = "ok"
           \/ pc'[s] = "closed" /\ nRep'[s] = 0

\* C11: a link call, a stream or the home wait that fails in takeoff,
\* mission, land or status never ends the session or the server: the step
\* leaves the socket, the listening socket and main() as they were and
\* takes handle_client to the except clause's write of one "ERR <message>"
\* line (or on to the next await, for the swallowed clear_mission failure);
\* when that write succeeds the session is back at readline(), and only a
\* failing write ends it.
C11_LinkFailureNotFatal == [][\A s \in Sessions : C11_Step(s)]_vars

\* the home wait of a mission timed out and its ERR line is being written
\* on a socket that works
C11_Witness ==
    \E s \in Sessions :
        /\ Writing(s)
        /\ pc[s] = "w_handler"
        /\ cmd[s] = CmdMission
        /\ calls[s] = <<"home">>
        /\ rep[s] = ErrLine(TimeoutMsg)

\* --------------------------------------------------------------- C12
\* the link calls of a mission command, in the order of the source
MissionCalls == <<"home", "clear_mission", "upload_mission", "start_mission">>

\* the plan the mission branch builds from home position h
PlanFrom(h) ==
    build_square_mission(h.latitude_deg, h.longitude_deg,
                         DefaultAlt, DefaultSide, DefaultSpeed)

C12_Order(s) ==
    /\ cmd[s] = CmdMission =>
           /\ Len(calls[s]) <= Len(MissionCalls)
           /\ calls[s] = SubSeq(MissionCalls, 1, Len(calls[s]))
    /\ pc[s] \in {"clear", "sleep03", "upload", "sleep05", "start"} =>
           /\ cmd[s] = CmdMission
           /\ got[s] # <<>>
           /\ got[s][1] \in Homes
           /\ plan[s] = PlanFrom(got[s][1])
    /\ pc[s] = "upload" => calls[s] = SubSeq(MissionCalls, 1, 3)
    /\ pc[s] \in {"sleep05", "start"} => "upload_mission" \in {calls[s][i] : i \in 1..Len(calls[s])}
    /\ pc[s] = "start" => calls[s] = MissionCalls
    /\ (Writing(s) /\ rep[s] = OkMission) => calls[s] = MissionCalls

C12_Orders == \A s \in Sessions : C12_Order(s)

C12_Step(s) ==
    /\ (Steps(s) /\ pc[s] = "read" /\ pc'[s] = "home")
        => got'[s] = <<>> /\ flying /\ calls'[s] = <<"home">>
    /\ (Steps(s) /\ pc'[s] = "clear")
        => /\ pc[s] = "home"
           /\ got'[s] # <<>>
           /\ home'[s] = got'[s]
           /\ plan'[s] = PlanFrom(got'[s][1])
    /\ (Steps(s) /\ pc[s] = "clear")
        => pc'[s] \in {"sleep03", "upload"} /\ rep'[s] = ""
    /\ (Steps(s) /\ pc'[s] = "upload") => pc[s] \in {"clear", "sleep03"}
    /\ (Steps(s) /\ pc'[s] = "sleep05") => pc[s] = "upload"
    /\ (Steps(s) /\ pc'[s] = "start") => pc[s] = "sleep05"
    /\ (Steps(s) /\ pc[s] = "start" /\ pc'[s] = "w_try")
        => rep'[s] = OkMission
    /\ (Steps(s) /\ pc[s] \in {"clear", "sleep03", "upload", "sleep05", "start"})
        => UNCHANGED <<home, plan, got>>

\* C12: an admitted mission command drives the link in the order get_home,
\* clear_mission, upload_mission, start_mission; clear_mission is called
\* only after the home stream has delivered a position to this command, and
\* the plan handed to upload_mission is the one built from that position,
\* whatever home and plan held from earlier commands; a clear_mission
\* that raises goes on to upload_mission without a reply; start_mission is
\* called only after upload_mission has returned in this command; and
\* "OK mission started" is written only after all four.
C12_MissionOrder ==
    /\ []C12_Orders
    /\ [][\A s \in Sessions : C12_Step(s)]_vars

\* a mission waits for the home stream while home and plan still hold the
\* position and plan of an earlier mission of the session
C12_Witness ==
    \E s \in Sessions :
        /\ pc[s] = "home"
        /\ home[s] # <<>>
        /\ home[s][1] \in Homes
        /\ plan[s] = PlanFrom(home[s][1])

\* --------------------------------------------------------------- C13
\* items a and b differ in the latitude only or in the longitude only
OneCoordinate(a, b) ==
    (a.latitude_deg # b.latitude_deg) # (a.longitude_deg # b.longitude_deg)

\* C13: build_square_mission(lat, lon, alt, side_m, speed_m_s) with
\* side_m > 0 returns exactly four items, at (lat+dlat, lon),
\* (lat+dlat, lon+dlon), (lat, lon+dlon), (lat, lon) in that order with
\* dlat > 0 the side in degrees of latitude and dlon > 0: the last item is
\* the origin, every item differs from the next (and the last from the
\* first) in exactly one coordinate, and all four carry the altitude and
\* the speed given and is_fly_through = True.
C13_SquarePlan ==
    (sq # <<>> /\ sq.items # <<>>) =>
        LET w == sq.items
            dlat == w[1].latitude_deg - sq.lat
            dlon == w[2].longitude_deg - sq.lon
        IN  /\ sq.side_m > 0
            /\ Len(w) = 4
            /\ dlat > 0 /\ dlon > 0
            /\ dlat * MetresPerDegree <= sq.side_m * PerDegree
            /\ (dlat + 1) * MetresPerDegree > sq.side_m * PerDegree
            /\ dlon >= dlat
            /\ w[1].latitude_deg = sq.lat + dlat /\ w[1].longitude_deg = sq.lon
            /\ w[2].latitude_deg = sq.lat + dlat
            /\ w[2].longitude_deg = sq.lon + dlon
            /\ w[3].latitude_deg = sq.lat /\ w[3].longitude_deg = sq.lon + dlon
            /\ w[4].latitude_deg = sq.lat /\ w[4].longitude_deg = sq.lon
            /\ \A i \in 1..4 : OneCoordinate(w[i], w[(i % 4) + 1])
            /\ \A i \in 1..4 :
                   /\ w[i].relative_altitude_m = sq.alt
                   /\ w[i].speed_m_s = sq.speed_m_s
                   /\ w[i].is_fly_through = TRUE

\* a square of side 100 m has been built at the south pole, where the
\* cosine is held at 0.2
C13_Witness ==
    /\ sq # <<>>
    /\ sq.items # <<>>
    /\ sq.lat = -900000000
    /\ sq.side_m = 100
    /\ sq.items[2].longitude_deg = sq.lon + 45045

\* --------------------------------------------------------------- C14
\* C14: what a call of send_cmd that has sent its line to the server
\* returns is the server's reply to the command it sent: the one line that
\* answers that command.
C14_SendCmdReturnsReply ==
    \A s \in Sessions :
        (sc[s] # <<>> /\ Returned(s) /\ sc[s].at = "recv") =>
            \E r \in {OkTakeoff, OkMission, OkLand, OkStop, ErrNotFlying}
                     \cup {ErrLine(m) : m \in ErrMsgs} :
                /\ sc[s].ret = <<Strip(Chars[r])>>
                /\ Answers(Normalize(sc[s].line), r)

\* --------------------------------------------------------------- C15
\* the step ends session s or breaks its socket
Ends(s) ==
    \/ pc[s] \notin {"closed", "aborted"} /\ pc'[s] \in {"closed", "aborted"}
    \/ sock[s] = "ok" /\ sock'[s] # "ok"

C15_Step(s) ==
    Ends(s) =>
        /\ UNCHANGED <<flying, linkAir, boot, listening>>
        /\ \A t \in Sessions \ {s} :
               /\ pc'[t] = pc[t] /\ sock'[t] = sock[t]
               /\ rep'[t] = rep[t] /\ nRep'[t] = nRep[t]
               /\ cmd'[t] = cmd[t] /\ calls'[t] = calls[t]

\* with a session ended or broken, every other session's pending reply can
\* still be written, its next line can still be read, and the next
\* connection can still be accepted
C15_OthersGoOn ==
    \A s, t \in Sessions :
        (s # t /\ (pc[s] \in {"closed", "aborted"} \/ sock[s] = "broken")) =>
            /\ Writing(t) =>
                   ENABLED (WriteTryOk(t) \/ WriteHandlerOk(t) \/ WritePlainOk(t))
            /\ (pc[t] = "read" /\ sock[t] = "ok" /\ reads < MaxCmds) =>
                   \A line \in Lines : ENABLED Read(t, line)
            /\ (boot = "serving" /\ pc[t] = "none"
                /\ \A u \in Sessions : u < t => pc[u] # "none") =>
                   ENABLED Accept(t)

\* C15: a failed read or write, or the peer's disconnect, in one session
\* ends that session only: the step changes nothing of any other session,
\* of state["flying"], of the vehicle or of the listening server, and
\* afterwards the other sessions still get their replies written and their
\* lines read, and new connections are still accepted.
C15_FailureIsLocal ==
    /\ []C15_OthersGoOn
    /\ [][\A s \in Sessions : C15_Step(s)]_vars

\* one session has ended without a stop while another, in the air, is
\* having its reply written
C15_Witness ==
    \E s, t \in Sessions :
        /\ s # t
        /\ pc[s] \in {"closed", "aborted"}
        /\ cmd[s] = <<>>
        /\ Writing(t)
        /\ flying

\* --------------------------------------------------------------- C16
\* session s is suspended in a link call, a settle pause or a stream wait
Suspended(s) == pc[s] \in LinkAwaits

\* while s is suspended, another session's line can be read, its link
\* call can return, and its reply can be written
C16_OthersRun ==
    \A s, t \in Sessions :
        (s # t /\ Suspended(s)) =>
            /\ (pc[t] = "read" /\ sock[t] = "ok" /\ reads < MaxCmds) =>
                   \A line \in Lines : ENABLED Read(t, line)
            /\ pc[t] = "status" => \A b \in BOOLEAN : ENABLED StatusEvent(t, b)
            /\ Writing(t) =>
                   ENABLED (WriteTryOk(t) \/ WriteHandlerOk(t) \/ WritePlainOk(t))

\* a step of another session leaves a suspended session where it is
C16_Step(s) ==
    \A t \in Sessions \ {s} :
        (Suspended(s) /\ Steps(t)) => pc'[s] = pc[s] /\ calls'[s] = calls[s]

\* C16: sessions do not block each other.  While a session is suspended
\* in a link call, a settle pause or the home wait, every other session's
\* line can be read, processed and answered without the suspended session
\* taking a step; and a reply another session has ready while one is
\* suspended does get written (or that socket fails), even if the
\* suspended call never returns.
C16_NoBlocking ==
    /\ []C16_OthersRun
    /\ [][\A s \in Sessions : C16_Step(s)]_vars
    /\ \A s, t \in Sessions :
           (s # t /\ Suspended(s) /\ Writing(t)) ~> (nRep[t] = 1 \/ sock[t] # "ok")

\* one session waits for the home position while another's reply to stop
\* is being written
C16_Witness ==
    \E s, t \in Sessions :
        /\ s # t
        /\ pc[s] = "home"
        /\ Writing(t)
        /\ cmd[t] = CmdStop
        /\ rep[t] = OkStop

\* --------------------------------------------------------------- C17
\* C17: upload_mission and start_mission are called only while
\* state["flying"] is True at the moment of the call.
C17_FlyingAtMissionCalls ==
    [][\A s \in Sessions :
           (Steps(s) /\ pc'[s] \in {"upload", "start"}) => flying]_vars

\* --------------------------------------------------------------- C18
\* a takeoff or land command is in progress in session s
TakeoffOrLand(s) == cmd[s] \in {CmdTakeoff, CmdTakeOff, CmdLand}

\* C18: whenever no takeoff or land command is in progress in any session,
\* state["flying"] is True exactly when the last takeoff() or land() the
\* link accepted was a takeoff.
C18_FlagFollowsLink ==
    (\A s \in Sessions : ~TakeoffOrLand(s)) => (flying = linkAir)

\* --------------------------------------------------------------- C19
\* C19: the connected value of an `OK connected=... flying=...` reply is the
\* is_connected of an event the connection-state stream delivered during
\* that same status command, and a status command whose stream delivered no
\* event is answered with an ERR line.
C19_StatusReadsLink ==
    \A s \in Sessions :
        (cmd[s] = CmdStatus /\ pc[s] \in {"w_try", "w_handler"})
            => IF got[s] = <<>>
               THEN \E m \in ErrMsgs : rep[s] = ErrLine(m)
               ELSE pc[s] = "w_try"
                    => \E f \in BOOLEAN :
                           rep[s] = StatusLine(got[s][1].is_connected, f)

\* --------------------------------------------------------------- C20
\* C20: the listening socket is opened only when wait_connected has ended
\* on an event with is_connected = True; when the connection-state stream
\* has ended without one, main() does not go on to start_server.
C20_ListenOnlyConnected ==
    [][(listening' /\ ~listening) => connRes = "true"]_vars

====
